---- MODULE Spec2Model ----
(***************************************************************************)
(* A model of the raytracer's tile scheduler (Camera::render) and of its   *)
(* bounding-volume hierarchy (BVHNode::inner_from_vec, BVHNode::hit,       *)
(* HittableList::hit, AABB::hit, Sphere::calculate_hit).                   *)
(***************************************************************************)
EXTENDS Integers, Sequences, FiniteSets, Bags, TLC

(***************************************************************************)
(* Bounds of the model.                                                    *)
(***************************************************************************)
\* the image has at most this many tiles
MaxTiles == 4
\* thread::available_parallelism() is between 1 and this
MaxThreads == 2
\* capacity of the bounded channel the caller hands to Camera::render
MaxOutCap == 1
\* a scene has at most this many objects
MaxObjects == 3
\* the spheres on the x axis have their centre at 2 * k, k in 0..MaxCoord
MaxCoord == 1
\* the depth limits of a trace are 0..MaxDepth
MaxDepth == 2
\* the widths and heights given to ImageSpecBuilder are 0..MaxDim
MaxDim == 2
\* the small samples_per_pixel counts are 0..MaxSamples
MaxSamples == 4

\* the greatest length of a slice that is split
MaxSlice == 6
\* the sides of the sampling grids are 2^0..2^MaxGridLog
MaxGridLog == 2

(***************************************************************************)
(* Program constants.                                                      *)
(***************************************************************************)
\* let rect = (32, 32): rows of a tile
RectRows == 32
\* let rect = (32, 32): columns of a tile
RectCols == 32
\* sync_channel(1): the buffer of the channel from the workers to the assembler
WorkerChanCap == 1
\* a Color component 1.0 is ColorUnit * 2^MaxDepth units: 0.5 and 0.7 are whole
ColorUnit == 20
\* an attenuation component 1.0 is AttenuationUnit units
AttenuationUnit == 2
\* samples_per_pixel as f64: the significant bits of an f64
F64Mantissa == 53
\* the u64 below 2^SmallBits are computed with as integers
SmallBits == 16
\* state: [u64; 2]: the width of a word of the generator
U64Bits == 64

VARIABLES
    image_height,        \* Camera.image_height
    image_width,         \* Camera.image_width
    threads,             \* usize::from(thread::available_parallelism().unwrap())
    out_cap,             \* the buffer of the caller's sync_channel (sender)
    shared_index,        \* the AtomicUsize tile cursor
    wpc,                 \* each worker's position in its loop
    widx,                \* each worker's idx, a local of the loop body (0 outside it)
    worker_chan,         \* tiles buffered between worker_sender and delegator_receiver
    delegator_receiver,  \* TRUE while the receiving end of the worker channel is alive
    apc,                 \* the assembler's position (the body of the thread::scope closure)
    ai,                  \* the assembler's loop counter i
    acur,                \* the tile the assembler has received and not yet forwarded
    placed,              \* the tiles the assembler has copied into image_buffer
    out_chan,            \* tiles buffered in the caller's channel
    receiver,            \* TRUE while the consumer's receiving end is alive
    returned,            \* TRUE once thread::scope has joined and render has returned
    files_written,       \* number of calls of write_buffer_to_file
    delivered,           \* history: bag of the tiles sender.send accepted
    claim_count,         \* history: how often each tile index was claimed
    rendered,            \* history: what render_rect was called with for each tile index
    claims_after_close,  \* history: per worker, fetch_adds after delegator_receiver was dropped
    claims_after_fail,   \* history: per worker, fetch_adds after one of its sends failed
    send_failed,         \* history: per worker, whether one of its sends failed
    pending,             \* history: per worker, tiles it claimed whose send has not completed
    bpc,                 \* "list" before into_bvh, "bvh" after it, "hit" after a query
    objects,             \* HittableList.objects, the Vec the builder consumes
    source,              \* history: the objects of the list before into_bvh
    tree,                \* the Box<dyn Hittable> into_bvh returned
    splits,              \* history: the splits of the calls of inner_from_vec
    build_ok,            \* FALSE when inner_from_vec did not return
    query_ray,           \* the ray of the query
    query_range,         \* the ray_trange of the query
    bvh_record,          \* what BVHNode::hit returned
    list_record,         \* what HittableList::hit returned on the same objects
    tpc,                 \* the position of the trace in ray_color_inner
    trace_input,         \* the arguments of ray_color: rng, ray, self.depth, world
    trace_rng,           \* the Rng behind the &mut Rng of the trace
    trace_ray,           \* the ray of the current call of ray_color_inner
    trace_depth,         \* the depth of the current call
    trace_hit,           \* the material of hit_record
    frames,              \* the calls waiting for their recursive call: ray, attenuation
    trace_color,         \* the Color the last return statement produced
    trace_returns,       \* history: the Colors the calls returned, depth 0 first
    scene_queries,       \* history: calls of world.hit of this run
    scatters,            \* history: calls of Material::scatter of this run
    base_case,           \* history: why the innermost call returned
    trace_run,           \* 1 in the first call of ray_color, 2 in the repeated one
    first_run,           \* history: the Color and the Rng the first call left
    ipc,                 \* "builder" until ImageSpecBuilder::build, then "built" or "panicked"
    image_spec_builder,  \* the ImageSpecBuilder
    image_spec,          \* the ImageSpec build returned
    cpc,                 \* "builder" until CameraBuilder::build, then "built" or "panicked"
    camera_builder,      \* the CameraBuilder: its three required fields
    camera,              \* the Camera build returned
    shape_pc,            \* "ray" before the call of a shape's hit, then "sphere" or "aabb"
    shape_ray,           \* the ray of the call
    shape_sphere,        \* the Sphere whose hit is called
    shape_range,         \* the ray_trange of the call
    shape_box,           \* the AABB whose hit is called
    sphere_record,       \* what Sphere::hit returned
    aabb_record,         \* what AABB::hit returned
    asm_pc,              \* "recv" while tiles arrive, "done" after the last one
    asm_height,          \* image_height of the image that is put together
    asm_width,           \* image_width of it
    asm_pending,         \* the indices of the tiles that have not arrived
    asm_i,               \* the assembler's loop counter i: tiles received
    asm_out_of_order,    \* history: some tile arrived at another position than its index
    image_buffer,        \* Camera::render's image_buffer
    asm_out,             \* the tiles sent on to the consumer and not yet received
    texture,             \* the consumer's texture, one entry per pixel
    split_pc,            \* "slice" before the split of a slice, then "split"
    middles,             \* the middles of the objects of the slice on the chosen axis
    sorted_middles,      \* the middles after sort_by
    split_mean,          \* mean
    split_index,         \* split
    split_old,           \* split as hittable/mod.rs computes it
    sampler_pc,          \* "loop" inside sample_pixel's loops, "done" after them
    pixel_j,             \* j: the row of the pixel that is sampled
    pixel_i,             \* i: the column of the pixel
    sampler_sqrt,        \* PixelSampler::Uniform(samples_sqrt)
    loop_yi,             \* yi
    loop_xi,             \* xi
    sample_points        \* the (dx, dy) handed to sample_at so far

render_vars ==
    << image_height, image_width, threads, out_cap, shared_index, wpc, widx,
       worker_chan, delegator_receiver, apc, ai, acur, placed, out_chan,
       receiver, returned, files_written, delivered, claim_count, rendered,
       claims_after_close, claims_after_fail, send_failed, pending >>

bvh_vars ==
    << bpc, objects, source, tree, splits, build_ok, query_ray, query_range,
       bvh_record, list_record >>

trace_vars ==
    << tpc, trace_input, trace_rng, trace_ray, trace_depth, trace_hit, frames,
       trace_color, trace_returns, scene_queries, scatters, base_case,
       trace_run, first_run >>

\* the state of the calls of single functions
builder_vars ==
    << ipc, image_spec_builder, image_spec, cpc, camera_builder, camera >>

shape_vars ==
    << shape_pc, shape_ray, shape_sphere, shape_range, shape_box, sphere_record,
       aabb_record >>

asm_vars ==
    << asm_pc, asm_height, asm_width, asm_pending, asm_i, asm_out_of_order,
       image_buffer, asm_out, texture >>

split_vars ==
    << split_pc, middles, sorted_middles, split_mean, split_index, split_old >>

\* the state of the parts of functions that are called alone
sampler_vars ==
    << sampler_pc, pixel_j, pixel_i, sampler_sqrt, loop_yi, loop_xi,
       sample_points >>

part_vars == << split_vars, sampler_vars >>

unit_vars == << trace_vars, builder_vars, shape_vars, asm_vars, part_vars >>

vars == << render_vars, bvh_vars, unit_vars >>

(***************************************************************************)
(* Helpers.                                                                *)
(***************************************************************************)
Min(a, b) == IF a <= b THEN a ELSE b

Max(a, b) == IF a >= b THEN a ELSE b

\* usize::div_ceil
DivCeil(a, b) == (a + b - 1) \div b

\* the image sizes tried: the multiples of the tile size, and one pixel more
\* (RenderInit takes both sizes of the same kind)
Dims(maxTiles, tile) ==
    { d \in 0..(maxTiles * tile) : d % tile \in {0, 1} }

Workers == 1..threads

NoTile == [top_left |-> << 0, 0 >>, rect |-> << 0, 0 >>]

(***************************************************************************)
(* u64 and Rng (random.rs).  A u64 is the set of the positions of its one  *)
(* bits, bit 0 the least significant one.                                  *)
(***************************************************************************)
\* the value of the u64 whose bits are the binary digits of n (n small)
RECURSIVE U64From(_, _)
U64From(n, bit) ==
    IF n = 0 THEN {}
    ELSE (IF n % 2 = 1 THEN {bit} ELSE {}) \cup U64From(n \div 2, bit + 1)

U64(n) == U64From(n, 0)

\* a u64 literal from its sixteen hexadecimal digits, most significant first
U64Hex(digits) ==
    UNION { { 4 * (16 - i) + b : b \in U64(digits[i]) } : i \in 1..16 }

\* a.bitxor(b)
BitXor(a, b) == (a \ b) \cup (b \ a)

\* a.rotate_left(k)
RotateLeft(a, k) == { (b + k) % U64Bits : b \in a }

\* a << k: the bits shifted beyond bit 63 are lost
Shl(a, k) == { b + k : b \in { x \in a : x + k < U64Bits } }

\* the carry into bit i of a + b: some lower bit generates a carry and every
\* bit between it and i propagates it
CarryInto(a, b, i) ==
    \E j \in 0..(i - 1) :
        /\ j \in a /\ j \in b
        /\ \A k \in (j + 1)..(i - 1) : k \in a \/ k \in b

\* a.wrapping_add(b): the carry out of bit 63 is dropped
WrappingAdd(a, b) ==
    { i \in 0..(U64Bits - 1) : ((i \in a) # (i \in b)) # CarryInto(a, b, i) }

\* Rng::from_seed
FromSeed(seed) == [state |-> seed]

\* body(x) for x the value of v: a let binding whose value is computed once
With(v, body(_)) == CHOOSE out \in { body(x) : x \in {v} } : TRUE

\* Rng::next_u64: the value returned and the generator after the call
NextU64(rng) ==
    With(rng.state[1], LAMBDA a :
    With(rng.state[2], LAMBDA b :
    With(BitXor(b, a), LAMBDA c :
        [result |-> WrappingAdd(a, b),
         rng |-> [state |-> << BitXor(BitXor(RotateLeft(a, 24), c), Shl(c, 16)),
                               RotateLeft(c, 37) >>]])))

\* Rng::jump_impl, iterations lo..hi-1 of the 2 * 64 iterations of its two
\* loops (jumper word k \div 64, bit k % 64), from the generator and the
\* accumulators s0, s1 in `at`; the range is halved to keep the evaluation flat
RECURSIVE JumpRange(_, _, _, _)
JumpRange(at, jumper, lo, hi) ==
    IF hi - lo = 1
    THEN LET j == jumper[(lo \div U64Bits) + 1]
             taken == (lo % U64Bits) \in j
         IN  [rng |-> NextU64(at.rng).rng,
              s0 |-> IF taken THEN BitXor(at.s0, at.rng.state[1]) ELSE at.s0,
              s1 |-> IF taken THEN BitXor(at.s1, at.rng.state[2]) ELSE at.s1]
    ELSE LET mid == lo + ((hi - lo) \div 2)
         IN  With(JumpRange(at, jumper, lo, mid), LAMBDA first :
                 JumpRange(first, jumper, mid, hi))

\* Rng::jump_impl: self.state[0] = s0; self.state[1] = s1
JumpImpl(rng, jumper) ==
    LET end == JumpRange([rng |-> rng, s0 |-> {}, s1 |-> {}], jumper, 0, 2 * U64Bits)
    IN  [state |-> << end.s0, end.s1 >>]

\* const JUMPER of short_jump
ShortJumper ==
    << U64Hex(<< 13, 15, 9, 0, 0, 2, 9, 4, 13, 8, 15, 5, 5, 4, 10, 5 >>),
       U64Hex(<< 1, 7, 0, 8, 6, 5, 13, 15, 4, 11, 3, 2, 0, 1, 15, 12 >>) >>

\* const JUMPER of long_jump
LongJumper ==
    << U64Hex(<< 13, 2, 10, 9, 8, 11, 2, 6, 6, 2, 5, 14, 14, 14, 7, 11 >>),
       U64Hex(<< 13, 13, 13, 15, 9, 11, 1, 0, 9, 0, 10, 10, 7, 10, 12, 1 >>) >>

short_jump(rng) == JumpImpl(rng, ShortJumper)

long_jump(rng) == JumpImpl(rng, LongJumper)

\* Camera::render: let mut rng = Rng::from_seed([123, 128]); rng.short_jump()
RenderRng == short_jump(FromSeed(<< U64(123), U64(128) >>))

\* a generator the workers share, leapt while another worker holds a tile
GetParametersRngShared(index) ==
    IF \E w \in 1..threads : wpc[w] = "send" THEN short_jump(RenderRng) ELSE RenderRng

\* the rng of the tuple get_parameters(index) returns: rng.clone()
GetParametersRng(index) == RenderRng

\* render_rect: `let mut rng = rng.clone()`, the generator sample_pixel is given
\* for pixel (j, i) of a tile whose generator is rng
PixelRng(rng, j, i) == rng

(***************************************************************************)
(* Camera::render: the tile grid.                                          *)
(***************************************************************************)
\* let rect_count = image_height.div_ceil(rect.0) * image_width.div_ceil(rect.1)
RectCount(h, w) == DivCeil(h, RectRows) * DivCeil(w, RectCols)

rect_count == RectCount(image_height, image_width)

\* the closure get_parameters: the offset and extent of tile `index`
GetParametersShifted(index, h, w) ==
    LET bx == DivCeil(w, RectCols)
        rect_y == index \div bx
        rect_x == index % bx
        top_left == << rect_y * RectRows, rect_x * (RectCols - 1) >>
    IN  [top_left |-> top_left,
         rect |-> << Min(RectRows, h - top_left[1]),
                     Min(RectCols, w - top_left[2]) >>]

GetParameters(index, h, w) ==
    LET bx == DivCeil(w, RectCols)
        rect_y == index \div bx
        rect_x == index % bx
        top_left == << rect_y * RectRows, rect_x * RectCols >>
    IN  [top_left |-> top_left,
         rect |-> << Min(RectRows, h - top_left[1]),
                     Min(RectCols, w - top_left[2]) >>]

\* no render_rect call yet
NotRendered == [called |-> FALSE]

\* let (rng, top_left, rect, world) = get_parameters(idx);
\* self.render_rect(rng, top_left, rect, world): what the call is given; the
\* world and the camera are shared and never written
RenderRectCall(idx) ==
    [called |-> TRUE,
     rng |-> GetParametersRng(idx),
     top_left |-> GetParameters(idx, image_height, image_width).top_left,
     rect |-> GetParameters(idx, image_height, image_width).rect]

\* shared_index.fetch_add(1, Ordering::SeqCst): the new value of the cursor
FetchAddLost(cursor) == cursor

FetchAdd(cursor) == cursor + 1

\* `if idx >= rect_count { break; }`
PastLast(idx, count) == idx >= count

\* `if let Err(_) = worker_sender.send(..) { break; }`: where a failed send leads
AfterSendErrRetry == "claim"

AfterSendErr == "done"

\* whether delegator_receiver is still alive once the scope closure has returned:
\* it is a local of the closure, dropped on `return` and at the closure's end
ReceiverKeptAlive == TRUE

ReceiverAfterReturn == FALSE

\* SyncSender::send on a live channel returns once the buffer has room
HasRoomNever(chan, cap) == FALSE

HasRoomUnbounded(chan, cap) == TRUE

HasRoom(chan, cap) == Len(chan) < cap

(***************************************************************************)
(* The state after `let (worker_sender, delegator_receiver) =               *)
(* sync_channel(1)` and the spawning of the workers.                       *)
(***************************************************************************)
RenderInit ==
    /\ image_height \in Dims(MaxTiles, RectRows)
    /\ image_width \in Dims(MaxTiles, RectCols)
    /\ RectCount(image_height, image_width) <= MaxTiles
    /\ image_height % RectRows = image_width % RectCols
    /\ threads \in 1..MaxThreads
    /\ out_cap \in 1..MaxOutCap
    /\ shared_index = 0
    /\ wpc = [w \in Workers |-> "claim"]
    /\ widx = [w \in Workers |-> 0]
    /\ worker_chan = << >>
    /\ delegator_receiver = TRUE
    /\ apc = "recv"
    /\ ai = 0
    /\ acur = NoTile
    /\ placed = EmptyBag
    /\ out_chan = << >>
    /\ receiver = TRUE
    /\ returned = FALSE
    /\ files_written = 0
    /\ delivered = EmptyBag
    /\ claim_count = [i \in 0..(rect_count - 1) |-> 0]
    /\ rendered = [i \in 0..(rect_count - 1) |-> NotRendered]
    /\ claims_after_close = [w \in Workers |-> 0]
    /\ claims_after_fail = [w \in Workers |-> 0]
    /\ send_failed = [w \in Workers |-> FALSE]
    /\ pending = [w \in Workers |-> 0]

(***************************************************************************)
(* The worker loop.                                                        *)
(***************************************************************************)
\* let idx = shared_index.fetch_add(1, SeqCst); if idx >= rect_count { break; }
\* let (rng, top_left, rect, world) = get_parameters(idx);
\* let result = self.render_rect(rng, top_left, rect, world);
\* (render_rect reads and writes nothing the other threads touch, so it is
\* taken in the same step as the claim)
WorkerClaim(w) ==
    /\ wpc[w] = "claim"
    /\ LET idx == shared_index
       IN  /\ shared_index' = FetchAdd(shared_index)
           /\ widx' = [widx EXCEPT ![w] =
                         IF PastLast(idx, rect_count) THEN 0 ELSE idx]
           /\ wpc' = [wpc EXCEPT ![w] =
                        IF PastLast(idx, rect_count) THEN "done" ELSE "send"]
           /\ claim_count' =
                IF idx \in DOMAIN claim_count
                THEN [claim_count EXCEPT ![idx] = @ + 1]
                ELSE claim_count
           /\ pending' = [pending EXCEPT ![w] =
                            IF PastLast(idx, rect_count) THEN @ ELSE @ + 1]
           /\ rendered' =
                IF PastLast(idx, rect_count)
                THEN rendered
                ELSE [rendered EXCEPT ![idx] = RenderRectCall(idx)]
    /\ claims_after_close' =
         [claims_after_close EXCEPT ![w] = IF delegator_receiver THEN @ ELSE @ + 1]
    /\ claims_after_fail' =
         [claims_after_fail EXCEPT ![w] = IF send_failed[w] THEN @ + 1 ELSE @]
    /\ UNCHANGED << image_height, image_width, threads, out_cap, worker_chan,
                    delegator_receiver, apc, ai, acur, placed, out_chan,
                    receiver, returned, files_written, delivered, send_failed,
                    bvh_vars, unit_vars >>

\* worker_sender.send((top_left, rect, result)) returns Ok
WorkerSendOk(w) ==
    /\ wpc[w] = "send"
    /\ delegator_receiver
    /\ HasRoom(worker_chan, WorkerChanCap)
    /\ worker_chan' =
         Append(worker_chan, GetParameters(widx[w], image_height, image_width))
    /\ wpc' = [wpc EXCEPT ![w] = "claim"]
    /\ widx' = [widx EXCEPT ![w] = 0]
    /\ pending' = [pending EXCEPT ![w] = @ - 1]
    /\ UNCHANGED << rendered, image_height, image_width, threads, out_cap, shared_index,
                    delegator_receiver, apc, ai, acur, placed, out_chan,
                    receiver, returned, files_written, delivered, claim_count,
                    claims_after_close, claims_after_fail, send_failed,
                    bvh_vars, unit_vars >>

\* worker_sender.send(..) returns Err: the receiver is gone; break, drop(worker_sender)
WorkerSendErr(w) ==
    /\ wpc[w] = "send"
    /\ ~delegator_receiver
    /\ wpc' = [wpc EXCEPT ![w] = AfterSendErr]
    /\ widx' = [widx EXCEPT ![w] = 0]
    /\ send_failed' = [send_failed EXCEPT ![w] = TRUE]
    /\ UNCHANGED << rendered, image_height, image_width, threads, out_cap, shared_index,
                    worker_chan, delegator_receiver, apc, ai, acur,
                    placed, out_chan, receiver, returned, files_written,
                    delivered, claim_count, claims_after_close,
                    claims_after_fail, pending,
                    bvh_vars, unit_vars >>

(***************************************************************************)
(* The assembler: `for i in 0..rect_count { .. }` in the scope closure.    *)
(***************************************************************************)
\* every SyncSender of the worker channel is gone: each worker has dropped its
\* clone, and the closure's own worker_sender lives until the closure returns
AllSendersDropped ==
    /\ \A w \in Workers : wpc[w] = "done"
    /\ apc \in {"done", "cancelled", "panicked"}

\* the loop runs out after its first pass
LoopOverAfterFirst(i, count) == i = count \/ i = 1

\* for i in 0..rect_count: the loop is over once i has reached rect_count
LoopOver(i, count) == i = count

\* delegator_receiver.recv().unwrap() and the copy into image_buffer; recv
\* blocks while the channel is empty and a sender lives, and unwrap panics
\* when the channel is empty and every sender is gone
AssemblerRecv ==
    /\ apc = "recv"
    /\ ai < rect_count
    /\ IF worker_chan # << >>
       THEN /\ acur' = Head(worker_chan)
            /\ worker_chan' = Tail(worker_chan)
            /\ placed' = placed (+) SetToBag({Head(worker_chan)})
            /\ apc' = "forward"
       ELSE /\ AllSendersDropped
            /\ apc' = "panicked"
            /\ UNCHANGED << acur, worker_chan, placed >>
    /\ UNCHANGED << rendered, image_height, image_width, threads, out_cap, shared_index,
                    wpc, widx, delegator_receiver, ai, out_chan, receiver,
                    returned, files_written, delivered, claim_count,
                    claims_after_close, claims_after_fail, send_failed, pending,
                    bvh_vars, unit_vars >>

\* sender.send((top_left, rect, result)) returns Ok
AssemblerForwardOk ==
    /\ apc = "forward"
    /\ receiver
    /\ HasRoom(out_chan, out_cap)
    /\ out_chan' = Append(out_chan, acur)
    /\ delivered' = delivered (+) SetToBag({acur})
    /\ acur' = NoTile
    /\ ai' = ai + 1
    /\ apc' = "recv"
    /\ UNCHANGED << rendered, image_height, image_width, threads, out_cap, shared_index,
                    wpc, widx, worker_chan, delegator_receiver, placed,
                    receiver, returned, files_written, claim_count,
                    claims_after_close, claims_after_fail, send_failed, pending,
                    bvh_vars, unit_vars >>

\* sender.send(..) returns Err: println!("cancelled"); return; the closure's
\* locals (delegator_receiver, worker_sender) are dropped
AssemblerCancelled ==
    /\ apc = "forward"
    /\ ~receiver
    /\ apc' = "cancelled"
    /\ delegator_receiver' = ReceiverAfterReturn
    /\ worker_chan' = IF ReceiverAfterReturn THEN worker_chan ELSE << >>
    /\ UNCHANGED << rendered, image_height, image_width, threads, out_cap, shared_index,
                    wpc, widx, ai, acur, placed, out_chan, receiver, returned,
                    files_written, delivered, claim_count, claims_after_close,
                    claims_after_fail, send_failed, pending,
                    bvh_vars, unit_vars >>

\* the loop is over: self.write_buffer_to_file(&image_buffer).unwrap(); the
\* closure's locals are dropped
AssemblerWrite ==
    /\ apc = "recv"
    /\ LoopOver(ai, rect_count)
    /\ files_written' = files_written + 1
    /\ apc' = "done"
    /\ delegator_receiver' = ReceiverAfterReturn
    /\ worker_chan' = IF ReceiverAfterReturn THEN worker_chan ELSE << >>
    /\ UNCHANGED << rendered, image_height, image_width, threads, out_cap, shared_index,
                    wpc, widx, ai, acur, placed, out_chan, receiver, returned,
                    delivered, claim_count, claims_after_close,
                    claims_after_fail, send_failed, pending,
                    bvh_vars, unit_vars >>

\* thread::scope joins every worker after the closure has returned
ScopeJoin ==
    /\ ~returned
    /\ apc \in {"done", "cancelled"}
    /\ \A w \in Workers : wpc[w] = "done"
    /\ returned' = TRUE
    /\ UNCHANGED << rendered, image_height, image_width, threads, out_cap, shared_index,
                    wpc, widx, worker_chan, delegator_receiver, apc, ai, acur,
                    placed, out_chan, receiver, files_written, delivered,
                    claim_count, claims_after_close, claims_after_fail,
                    send_failed, pending,
                    bvh_vars, unit_vars >>

(***************************************************************************)
(* The consumer (sdl_thread).                                              *)
(***************************************************************************)
\* `while let Ok((top_left, size, result)) = receiver.try_recv()`
ConsumerRecv ==
    /\ receiver
    /\ out_chan # << >>
    /\ out_chan' = Tail(out_chan)
    /\ UNCHANGED << rendered, image_height, image_width, threads, out_cap, shared_index,
                    wpc, widx, worker_chan, delegator_receiver, apc, ai, acur,
                    placed, receiver, returned, files_written, delivered,
                    claim_count, claims_after_close, claims_after_fail,
                    send_failed, pending,
                    bvh_vars, unit_vars >>

\* `break 'running` and drop(receiver)
ConsumerDrop ==
    /\ receiver
    /\ receiver' = FALSE
    /\ out_chan' = << >>
    /\ UNCHANGED << rendered, image_height, image_width, threads, out_cap, shared_index,
                    wpc, widx, worker_chan, delegator_receiver, apc, ai, acur,
                    placed, returned, files_written, delivered, claim_count,
                    claims_after_close, claims_after_fail, send_failed, pending,
                    bvh_vars, unit_vars >>

(***************************************************************************)
(* f64 values that may be infinite or NaN (AABB::hit divides by zero).     *)
(***************************************************************************)
Num(v) == [k |-> "num", v |-> v]

\* f64::INFINITY
INFINITY == [k |-> "inf", v |-> 1]

\* f64::NEG_INFINITY
NEG_INFINITY == [k |-> "inf", v |-> -1]

NaN == [k |-> "nan", v |-> 0]

\* a < b on f64: false when either side is NaN
FLt(a, b) ==
    /\ a.k # "nan"
    /\ b.k # "nan"
    /\ CASE a = NEG_INFINITY -> b # NEG_INFINITY
         [] a = INFINITY -> FALSE
         [] b = INFINITY -> TRUE
         [] b = NEG_INFINITY -> FALSE
         [] OTHER -> a.v < b.v

\* a <= b on f64
FLe(a, b) == FLt(a, b) \/ (a.k # "nan" /\ a = b)

\* f64::max: the other operand when one is NaN
FMax(a, b) ==
    IF a.k = "nan" THEN b
    ELSE IF b.k = "nan" THEN a
    ELSE IF FLt(a, b) THEN b ELSE a

\* f64::min: the other operand when one is NaN
FMin(a, b) ==
    IF a.k = "nan" THEN b
    ELSE IF b.k = "nan" THEN a
    ELSE IF FLt(b, a) THEN b ELSE a

\* `1. / ray.direction[a]` for a component -1, -0.0, 0.0 or 1
Recip(d, neg_zero) ==
    IF d = 0
    THEN IF neg_zero THEN NEG_INFINITY ELSE INFINITY
    ELSE Num(d)

\* the f64 product of the finite number n and inv (0 * infinity is NaN)
FMul(n, inv) ==
    IF inv.k = "num"
    THEN Num(n * inv.v)
    ELSE IF n = 0 THEN NaN
    ELSE IF (n > 0) = (inv.v > 0) THEN INFINITY ELSE NEG_INFINITY

(***************************************************************************)
(* Range<f64> (range.rs).  Lengths along a ray (t, the ends of ray_trange) *)
(* are kept doubled, so that the roots of the rays of the model are        *)
(* integers; the middle of a range is kept doubled as well.                *)
(***************************************************************************)
\* Membership::inclusive: self.start <= value && value <= self.end
Inclusive(range, value) ==
    FLe(range.start, value) /\ FLe(value, range.end)

\* Membership::exclusive: self.start < value && value < self.end
Exclusive(range, value) ==
    FLt(range.start, value) /\ FLt(value, range.end)

\* Expandable::union: self.start.min(other.start)..self.end.max(other.end)
RangeUnion(a, b) ==
    [start |-> Min(a.start, b.start), end |-> Max(a.end, b.end)]

\* RangeExtensions::middle, doubled: (self.start + self.end) / 2.
Middle2(range) == range.start + range.end

(***************************************************************************)
(* AABB (hittable/aabb.rs).                                                *)
(***************************************************************************)
\* AABB::from_vecs
FromVecs(start, end) ==
    [x |-> [start |-> Min(start[1], end[1]), end |-> Max(start[1], end[1])],
     y |-> [start |-> Min(start[2], end[2]), end |-> Max(start[2], end[2])],
     z |-> [start |-> Min(start[3], end[3]), end |-> Max(start[3], end[3])]]

\* AABB::from_boxes
FromBoxes(a, b) ==
    [x |-> RangeUnion(a.x, b.x),
     y |-> RangeUnion(a.y, b.y),
     z |-> RangeUnion(a.z, b.z)]

\* AABB::axis
Axis(box, n) == IF n = 1 THEN box.y ELSE IF n = 2 THEN box.z ELSE box.x

\* AABB::hit, from axis a on: some is FALSE for None
RECURSIVE AabbHitFrom(_, _, _, _, _)
AabbHitFrom(box, ray, a, raymin, raymax) ==
    IF a = 3
    THEN [some |-> TRUE, start |-> raymin, end |-> raymax]
    ELSE LET inverse_direction == Recip(ray.direction[a + 1], ray.neg_zero)
             orig == ray.origin[a + 1]
             ax == Axis(box, a)
             t0 == FMul(ax.start - orig, inverse_direction)
             t1 == FMul(ax.end - orig, inverse_direction)
             swap == FLt(inverse_direction, Num(0))
             newmin == FMax(IF swap THEN t1 ELSE t0, raymin)
             newmax == FMin(IF swap THEN t0 ELSE t1, raymax)
         IN  IF FLe(newmax, newmin)
             THEN [some |-> FALSE, start |-> NaN, end |-> NaN]
             ELSE AabbHitFrom(box, ray, a + 1, newmin, newmax)

\* AABB::hit
AabbHitRange(box, ray) == AabbHitFrom(box, ray, 0, NEG_INFINITY, INFINITY)

\* whether AABB::hit returns Some
AabbHit(box, ray) == AabbHitRange(box, ray).some

(***************************************************************************)
(* Sphere (hittable/geometry.rs).                                          *)
(***************************************************************************)
Dot(u, v) == u[1] * v[1] + u[2] * v[2] + u[3] * v[3]

LengthSquared(u) == Dot(u, u)

\* Sphere::new
NewSphere(center, radius, material) ==
    [kind |-> "sphere", center |-> center, radius |-> radius,
     material |-> material,
     bounding_box |->
        FromVecs(<< center[1] - radius, center[2] - radius, center[3] - radius >>,
                 << center[1] + radius, center[2] + radius, center[3] + radius >>)]

\* `alignment.powi(2) - squared_raydir_magnitude * surface_dist`
Discriminant(sphere, ray) ==
    LET sphere_to_ray == [i \in 1..3 |-> ray.origin[i] - sphere.center[i]]
        alignment == Dot(sphere_to_ray, ray.direction)
        surface_dist == LengthSquared(sphere_to_ray) - sphere.radius * sphere.radius
    IN  alignment * alignment - LengthSquared(ray.direction) * surface_dist

IsSquare(n) == \E k \in 0..n : k * k = n

\* f64::sqrt of a perfect square
Sqrt(n) == CHOOSE k \in 0..n : k * k = n

NoHit == [hit |-> FALSE, t |-> 0, material |-> 0]

\* Sphere::calculate_hit; t is doubled.  The rays of the model have a
\* direction of squared length 1 or 2, so 2 * (-alignment -+ sqrtd) /
\* squared_raydir_magnitude is an integer
SphereHit(sphere, ray, ray_trange) ==
    LET sphere_to_ray == [i \in 1..3 |-> ray.origin[i] - sphere.center[i]]
        squared_raydir_magnitude == LengthSquared(ray.direction)
        alignment == Dot(sphere_to_ray, ray.direction)
        discriminant == Discriminant(sphere, ray)
    IN  IF discriminant < 0
        THEN NoHit
        ELSE LET sqrtd == Sqrt(discriminant)
                 root1 == (2 * (0 - alignment - sqrtd)) \div squared_raydir_magnitude
                 root2 == (2 * (0 - alignment + sqrtd)) \div squared_raydir_magnitude
             IN  IF Exclusive(ray_trange, Num(root1))
                 THEN [hit |-> TRUE, t |-> root1, material |-> sphere.material]
                 ELSE IF Exclusive(ray_trange, Num(root2))
                 THEN [hit |-> TRUE, t |-> root2, material |-> sphere.material]
                 ELSE NoHit

(***************************************************************************)
(* HittableList and BVHNode (hittable/containers.rs).                      *)
(***************************************************************************)
\* impl Hittable for HittableList: hit, from the object at position i on
RECURSIVE ListHitFrom(_, _, _, _, _, _)
ListHitFrom(objs, i, ray, start, closest_so_far, result) ==
    IF i > Len(objs)
    THEN result
    ELSE LET hit_record ==
                 SphereHit(objs[i], ray, [start |-> start, end |-> closest_so_far])
         IN  IF hit_record.hit
             THEN ListHitFrom(objs, i + 1, ray, start, Num(hit_record.t), hit_record)
             ELSE ListHitFrom(objs, i + 1, ray, start, closest_so_far, result)

ListHit(objs, ray, ray_trange) ==
    ListHitFrom(objs, 1, ray, ray_trange.start, ray_trange.end, NoHit)

\* which of the two hits BVHNode::hit returns when the right child is hit
\* inside (start, left.t)
PreferLeft(left_record, right_record) == left_record

PreferRight(left_record, right_record) == right_record

\* impl Hittable for BVHNode: hit (a leaf is the sphere itself)
RECURSIVE BvhHit(_, _, _)
BvhHit(node, ray, ray_trange) ==
    IF node.kind = "sphere"
    THEN SphereHit(node, ray, ray_trange)
    ELSE IF ~AabbHit(node.bounding_box, ray)
    THEN NoHit
    ELSE LET record == BvhHit(node.left, ray, ray_trange)
         IN  IF record.hit
             THEN LET closer ==
                          BvhHit(node.right, ray,
                                 [start |-> ray_trange.start, end |-> Num(record.t)])
                  IN  IF closer.hit THEN PreferRight(record, closer) ELSE record
             ELSE BvhHit(node.right, ray, ray_trange)

\* the slice objects.split_at(start).1
SliceFrom(objs, start) == SubSeq(objs, start + 1, Len(objs))

\* twice o.bounding_box().axis(axis).middle()
Center2(o, axis) == Middle2(Axis(o.bounding_box, axis))

RECURSIVE SumCenter2(_, _)
SumCenter2(slice, axis) ==
    IF slice = << >>
    THEN 0
    ELSE Center2(Head(slice), axis) + SumCenter2(Tail(slice), axis)

\* max - min of the middles of the slice on an axis, doubled
Spread2(slice, axis) ==
    LET cs == { Center2(slice[i], axis) : i \in 1..Len(slice) }
    IN  (CHOOSE m \in cs : \A c \in cs : c <= m)
        - (CHOOSE m \in cs : \A c \in cs : m <= c)

\* max - min as the inner fold leaves it: of an empty slice max is still
\* NEG_INFINITY and min still INFINITY, and their difference is NEG_INFINITY
SpreadOf(slice, axis) ==
    IF slice = << >>
    THEN NEG_INFINITY
    ELSE Num(Spread2(slice, axis))

\* the fold over 0..3: the first axis of the greatest spread
RECURSIVE ChooseAxisFrom(_, _, _, _)
ChooseAxisFrom(slice, axid, prev_axid, highest_diff) ==
    IF axid = 3
    THEN prev_axid
    ELSE LET diff == SpreadOf(slice, axid)
         IN  IF FLt(highest_diff, diff)
             THEN ChooseAxisFrom(slice, axid + 1, axid, diff)
             ELSE ChooseAxisFrom(slice, axid + 1, prev_axid, highest_diff)

ChooseAxis(slice) == ChooseAxisFrom(slice, 0, 0, NEG_INFINITY)

\* slice::sort_by(box_compare): a stable sort by the middle on the axis
RECURSIVE InsertSorted(_, _, _)
InsertSorted(sorted, o, axis) ==
    IF sorted = << >>
    THEN << o >>
    ELSE IF Center2(Head(sorted), axis) <= Center2(o, axis)
    THEN << Head(sorted) >> \o InsertSorted(Tail(sorted), o, axis)
    ELSE << o >> \o sorted

RECURSIVE SortBy(_, _)
SortBy(slice, axis) ==
    IF slice = << >>
    THEN << >>
    ELSE InsertSorted(SortBy(SubSeq(slice, 1, Len(slice) - 1), axis),
                      slice[Len(slice)], axis)

\* .position(|x| x >= mean): the first index (from 0) of a middle at or above
\* the mean sum / length, or -1 for None; x >= sum / length is decided as
\* x * length >= sum
RECURSIVE PositionFrom(_, _, _, _)
PositionFrom(slice, axis, sum2, i) ==
    IF i >= Len(slice)
    THEN -1
    ELSE IF Center2(slice[i + 1], axis) * Len(slice) >= sum2
    THEN i
    ELSE PositionFrom(slice, axis, sum2, i + 1)

\* `.unwrap_or(length / 2).max(1)`
ClampSplitNoMax(position, length) ==
    IF position = -1 THEN length \div 2 ELSE position

ClampSplit(position, length) ==
    Max(IF position = -1 THEN length \div 2 ELSE position, 1)

\* the split index of a sorted slice
SplitIndex(sorted, axis) ==
    ClampSplit(PositionFrom(sorted, axis, SumCenter2(sorted, axis), 0),
               Len(sorted))

\* hittable/mod.rs, an older BVHNode::from_vec:
\* `.rposition(|x| x <= mean).unwrap_or(length / 2).max(1)`
RECURSIVE RPositionFrom(_, _, _, _)
RPositionFrom(slice, axis, sum2, i) ==
    IF i < 0
    THEN -1
    ELSE IF Center2(slice[i + 1], axis) * Len(slice) <= sum2
    THEN i
    ELSE RPositionFrom(slice, axis, sum2, i - 1)

SplitIndexOld(sorted, axis) ==
    ClampSplit(RPositionFrom(sorted, axis, SumCenter2(sorted, axis),
                             Len(sorted) - 1),
               Len(sorted))

\* the BVHNode a branch of inner_from_vec boxes
NodeLeftBoxOnly(left, right) ==
    [kind |-> "node", left |-> left, right |-> right,
     bounding_box |-> left.bounding_box]

NewNode(left, right) ==
    [kind |-> "node", left |-> left, right |-> right,
     bounding_box |-> FromBoxes(left.bounding_box, right.bounding_box)]

\* the branch `length == 2`: left and right are popped in this order
LeafPairSame(objs) == NewNode(objs[Len(objs)], objs[Len(objs)])

LeafPair(objs) == NewNode(objs[Len(objs)], objs[Len(objs) - 1])

\* hittable/mod.rs, the older BVHNode::from_vec, branch `length == 2`: the two
\* popped objects are compared on the axis drawn from rng and swapped unless
\* the first popped is the lesser
LeafPairOld(objs, axis) ==
    LET left == objs[Len(objs)]
        right == objs[Len(objs) - 1]
    IN  IF Center2(left, axis) < Center2(right, axis)
        THEN NewNode(left, right)
        ELSE NewNode(right, left)

\* a branch that moves one object out of the Vec where it takes two
PopOnce(objs, n) == SubSeq(objs, 1, Len(objs) - 1)

\* the Vec after n calls of objects.pop()
Pop(objs, n) == SubSeq(objs, 1, Len(objs) - n)

\* BVHNode::inner_from_vec(objects, start, depth): the node returned, the
\* objects left in the Vec, and for every call on more than two objects its
\* length, its split and the lengths its two recursive calls find.  A split
\* of 0 hands the same slice to the recursive call, which never returns (the
\* stack overflows), and a split of `length` hands it an empty slice, on
\* which the length arithmetic of the calls below underflows: ok is FALSE
\* let length = objects.len() - start with start > objects.len(): a build with
\* overflow checks panics at the subtraction; a build without them wraps the
\* length to a number above 2, and the first objects.split_at(start) of that
\* branch panics.  Neither build returns.
LengthUnderflow(objs) ==
    [node |-> [kind |-> "none"], objects |-> objs, splits |-> {}, ok |-> FALSE]

RECURSIVE InnerFromVec(_, _, _)
InnerFromVec(objs, start, depth) ==
    LET length == Len(objs) - start
    IN  IF length < 0
        THEN LengthUnderflow(objs)
        ELSE IF length = 1
        THEN [node |-> objs[Len(objs)],
              objects |-> Pop(objs, 1),
              splits |-> {}, ok |-> TRUE]
        ELSE IF length = 2
        THEN [node |-> LeafPair(objs),
              objects |-> Pop(objs, 2),
              splits |-> {}, ok |-> TRUE]
        ELSE LET slice == SliceFrom(objs, start)
                 axis == ChooseAxis(slice)
                 sorted == SortBy(slice, axis)
                 split == SplitIndex(sorted, axis)
                 vec == SubSeq(objs, 1, start) \o sorted
                 log(left_length) ==
                     {[length |-> length, split |-> split, axis |-> axis,
                       old_split |-> SplitIndexOld(sorted, axis),
                       right_length |-> Len(vec) - (start + split),
                       left_length |-> left_length]}
             IN  IF split < 1
                 THEN [node |-> [kind |-> "none"], objects |-> vec,
                       splits |-> log(split), ok |-> FALSE]
                 ELSE LET right == InnerFromVec(vec, start + split, depth + 1)
                      IN  IF ~right.ok
                          THEN [node |-> [kind |-> "none"],
                                objects |-> right.objects,
                                splits |-> log(split) \cup right.splits,
                                ok |-> FALSE]
                          ELSE LET left == InnerFromVec(right.objects, start, depth + 1)
                               IN  [node |-> NewNode(left.node, right.node),
                                    objects |-> left.objects,
                                    splits |-> log(Len(right.objects) - start)
                                                 \cup left.splits \cup right.splits,
                                    ok |-> left.ok]

\* a from_vec that makes of no objects a tree of no nodes
FromVecOrEmpty(objs) ==
    IF objs = << >>
    THEN [node |-> [kind |-> "none"], objects |-> objs, splits |-> {}, ok |-> TRUE]
    ELSE InnerFromVec(objs, 0, 0)

\* BVHNode::from_vec
FromVec(objs) == InnerFromVec(objs, 0, 0)

(***************************************************************************)
(* The scenes, rays and ranges tried.                                      *)
(***************************************************************************)
\* spheres of radius 1 centred on the x axis, each touching the next, one on
\* the y axis, one on the z axis, and a sphere of radius 2 around the origin
SphereKinds ==
    { [center |-> << 2 * k, 0, 0 >>, radius |-> 1] : k \in 0..MaxCoord }
    \cup { [center |-> << 0, 2, 0 >>, radius |-> 1],
           [center |-> << 0, 0, 2 >>, radius |-> 1],
           [center |-> << 0, 0, 0 >>, radius |-> 2] }

\* a scene: every sphere has a material of its own, numbered by its position
SceneOf(kinds) ==
    [i \in 1..Len(kinds) |-> NewSphere(kinds[i].center, kinds[i].radius, i)]

Scenes ==
    { SceneOf(kinds) : kinds \in UNION { [1..n -> SphereKinds] : n \in 0..MaxObjects } }

Origins ==
    { << -3, 0, 0 >>, << 0, 0, 0 >>, << 1, 0, 0 >>, << 5, 0, 0 >>,
      << 1, -3, 0 >>, << -3, 1, 0 >>, << -3, -2, 0 >> }

Directions ==
    { << 1, 0, 0 >>, << -1, 0, 0 >>, << 0, 1, 0 >>, << 1, 1, 0 >> }

Rays ==
    { [origin |-> o, direction |-> d, neg_zero |-> z] :
        o \in Origins, d \in Directions, z \in BOOLEAN }

\* 0.000001..f64::INFINITY as ray_color_inner passes it (no root of the model
\* lies in (0, 0.000001]), and a range that ends at t = 3
Ranges ==
    { [start |-> Num(0), end |-> INFINITY], [start |-> Num(0), end |-> Num(6)] }

\* the square roots calculate_hit takes of this ray are exact
ExactRay(objs, ray) ==
    \A i \in 1..Len(objs) :
        Discriminant(objs[i], ray) < 0 \/ IsSquare(Discriminant(objs[i], ray))

NoNode == [kind |-> "none"]

BvhIdle ==
    /\ bpc = "idle"
    /\ objects = << >>
    /\ source = << >>
    /\ tree = NoNode
    /\ splits = {}
    /\ build_ok = TRUE
    /\ query_ray = [origin |-> << 0, 0, 0 >>, direction |-> << 1, 0, 0 >>, neg_zero |-> FALSE]
    /\ query_range = [start |-> Num(0), end |-> INFINITY]
    /\ bvh_record = NoHit
    /\ list_record = NoHit

\* a HittableList of up to MaxObjects objects, before into_bvh
BvhInput ==
    /\ bpc = "list"
    /\ objects \in Scenes
    /\ source = objects
    /\ tree = NoNode
    /\ splits = {}
    /\ build_ok = TRUE
    /\ query_ray = [origin |-> << 0, 0, 0 >>, direction |-> << 1, 0, 0 >>, neg_zero |-> FALSE]
    /\ query_range = [start |-> Num(0), end |-> INFINITY]
    /\ bvh_record = NoHit
    /\ list_record = NoHit

\* HittableList::into_bvh: BVHNode::from_vec(&mut self.objects)
IntoBvh ==
    /\ bpc = "list"
    /\ LET built == FromVec(objects)
       IN  /\ tree' = built.node
           /\ objects' = built.objects
           /\ splits' = built.splits
           /\ build_ok' = built.ok
    /\ bpc' = "bvh"
    /\ UNCHANGED << source, query_ray, query_range, bvh_record, list_record,
                    render_vars, unit_vars >>

\* world.hit(ray, ray_trange) on the BVH, and on the list of the same objects
Hit(r, range) ==
    /\ bpc = "bvh"
    /\ build_ok
    /\ ExactRay(source, r)
    /\ query_ray' = r
    /\ query_range' = range
    /\ bvh_record' = BvhHit(tree, r, range)
    /\ list_record' = ListHit(source, r, range)
    /\ bpc' = "hit"
    /\ UNCHANGED << objects, source, tree, splits, build_ok, render_vars, unit_vars >>

(***************************************************************************)
(* Camera::ray_color (camera/mod.rs).  A Color is a triple of integers in  *)
(* units of 1 / (ColorUnit * 2^MaxDepth); an attenuation is a triple in    *)
(* units of 1 / AttenuationUnit, so that the products of a trace of at     *)
(* most MaxDepth scatters are exact.  Of a ray the trace reads the         *)
(* y component of its unit direction, here one of -1, 0, 1; the scene maps *)
(* such a ray to the material it hits, or to "miss".                       *)
(***************************************************************************)
RECURSIVE Pow2(_)
Pow2(n) == IF n = 0 THEN 1 ELSE 2 * Pow2(n - 1)

ColorScale == ColorUnit * Pow2(MaxDepth)

\* Color::black()
Black == << 0, 0, 0 >>

\* Color::new(1., 1., 1.)
White == << ColorScale, ColorScale, ColorScale >>

\* Color::new(0.5, 0.7, 1.)
SkyBlue == << (5 * ColorScale) \div 10, (7 * ColorScale) \div 10, ColorScale >>

\* let a = 0.5 * (unit_direction.y + 1.0); (1. - a) * white + a * sky blue,
\* with twice a computed first
SkyGradient(ray) ==
    LET a2 == ray.dir_y + 1
    IN  [i \in 1..3 |-> ((2 - a2) * White[i] + a2 * SkyBlue[i]) \div 2]

\* attenuation * color, component-wise
MulColor(attenuation, color) ==
    [i \in 1..3 |-> (attenuation[i] * color[i]) \div AttenuationUnit]

\* the multiplication of l.204 of ray_color_inner
Attenuate(attenuation, color) == MulColor(attenuation, color)

DirYs == {-1, 0, 1}

TraceRays == [dir_y : DirYs]

Materials == {"lambertian", "metal", "dielectric", "absorber"}

\* world.hit(ray, 0.000001..f64::INFINITY) of a scene: "miss" for None
Worlds == [TraceRays -> Materials \cup {"miss"}]

\* the generators a trace starts from
TraceSeeds ==
    { RenderRng,
      FromSeed(<< U64(123), U64(128) >>),
      FromSeed(<< U64(1), {} >>) }

\* the direction class a draw selects: its two most significant bits
DirOf(u) ==
    LET hi == (IF (U64Bits - 1) \in u THEN 1 ELSE 0) + (IF (U64Bits - 2) \in u THEN 1 ELSE 0)
    IN  hi - 1

\* a generator that is not the one passed in: it differs from call to call
ScatterRngPerCall(rng) == IF trace_run = 1 THEN rng ELSE NextU64(rng).rng

\* the generator a material draws from: the rng passed to scatter
ScatterRng(rng) == rng

\* Vec3::random_on_unit_sphere(rng): two draws (theta, z); the class of the
\* vector and the generator after the draws
RandomOnUnitSphere(rng) ==
    With(NextU64(ScatterRng(rng)), LAMBDA theta :
    With(NextU64(theta.rng), LAMBDA z :
        [dir_y |-> DirOf(BitXor(theta.result, z.result)), rng |-> z.rng]))

\* Material::scatter of each material: None is some = FALSE
Scatter(material, rng, ray) ==
    CASE material = "lambertian" ->
            \* hit_record.normal + random_on_unit_sphere; albedo 0.5 grey
            With(RandomOnUnitSphere(rng), LAMBDA random :
                [some |-> TRUE, attenuation |-> << 1, 1, 1 >>,
                 ray |-> [dir_y |-> random.dir_y], rng |-> random.rng])
      [] material = "metal" ->
            \* reflected + fuzz * random_on_unit_sphere
            With(RandomOnUnitSphere(rng), LAMBDA random :
                [some |-> TRUE, attenuation |-> << 2, 1, 0 >>,
                 ray |-> [dir_y |-> Max(-1, Min(1, random.dir_y - ray.dir_y))],
                 rng |-> random.rng])
      [] material = "dielectric" ->
            \* cannot_refract || reflectance > rng.next_f64(): the draw is
            \* made only when the ray can refract (here: when it is not level)
            IF ray.dir_y = 0
            THEN [some |-> TRUE, attenuation |-> << 2, 2, 2 >>,
                  ray |-> [dir_y |-> -ray.dir_y], rng |-> rng]
            ELSE With(NextU64(ScatterRng(rng)), LAMBDA draw :
                    [some |-> TRUE, attenuation |-> << 2, 2, 2 >>,
                     ray |-> [dir_y |-> IF DirOf(draw.result) = 1
                                        THEN -ray.dir_y ELSE ray.dir_y],
                     rng |-> draw.rng])
      [] OTHER ->
            \* a Material whose scatter returns None
            [some |-> FALSE, attenuation |-> Black, ray |-> ray, rng |-> rng]

\* a cutoff that lets the call at depth = limit through
CutoffAfterLimit(depth, limit) == depth > limit

\* if depth >= limit
CutoffReached(depth, limit) == depth >= limit

NoRun == [color |-> Black, rng |-> FromSeed(<< {}, {} >>), ran |-> FALSE]

TraceIdle ==
    /\ tpc = "idle"
    /\ trace_input = [rng |-> FromSeed(<< {}, {} >>), ray |-> [dir_y |-> 0],
                      limit |-> 0, world |-> [r \in TraceRays |-> "miss"]]
    /\ trace_rng = FromSeed(<< {}, {} >>)
    /\ trace_ray = [dir_y |-> 0]
    /\ trace_depth = 0
    /\ trace_hit = "miss"
    /\ frames = << >>
    /\ trace_color = Black
    /\ trace_returns = << >>
    /\ scene_queries = 0
    /\ scatters = 0
    /\ base_case = "none"
    /\ trace_run = 1
    /\ first_run = NoRun

\* self.ray_color(rng, ray, world) is called: ray_color_inner(rng, 0, self.depth, ray, world)
TraceInit ==
    /\ tpc = "call"
    /\ trace_input \in [rng : TraceSeeds, ray : TraceRays, limit : 0..MaxDepth,
                        world : Worlds]
    /\ trace_rng = trace_input.rng
    /\ trace_ray = trace_input.ray
    /\ trace_depth = 0
    /\ trace_hit = "miss"
    /\ frames = << >>
    /\ trace_color = Black
    /\ trace_returns = << >>
    /\ scene_queries = 0
    /\ scatters = 0
    /\ base_case = "none"
    /\ trace_run = 1
    /\ first_run = NoRun

\* if depth >= limit { return Color::black(); }
RayColorCutoff ==
    /\ tpc = "call"
    /\ CutoffReached(trace_depth, trace_input.limit)
    /\ trace_color' = Black
    /\ base_case' = "cutoff"
    /\ tpc' = "return"
    /\ UNCHANGED << trace_input, trace_rng, trace_ray, trace_depth, trace_hit,
                    frames, trace_returns, scene_queries, scatters, trace_run,
                    first_run, render_vars, bvh_vars,
                    builder_vars, shape_vars, asm_vars,
                    part_vars >>

\* world.hit(ray, 0.000001..f64::INFINITY)
WorldHit ==
    /\ tpc = "call"
    /\ ~CutoffReached(trace_depth, trace_input.limit)
    /\ scene_queries' = scene_queries + 1
    /\ trace_hit' = trace_input.world[trace_ray]
    /\ IF trace_input.world[trace_ray] = "miss"
       THEN tpc' = "sky" /\ base_case' = "miss"
       ELSE tpc' = "scatter" /\ UNCHANGED base_case
    /\ UNCHANGED << trace_input, trace_rng, trace_ray, trace_depth, frames,
                    trace_color, trace_returns, scatters, trace_run, first_run,
                    render_vars, bvh_vars,
                    builder_vars, shape_vars, asm_vars,
                    part_vars >>

\* hit_record.material.scatter(rng, ray, &hit_record): on Some the recursive
\* call at depth + 1, on None the fall through to the gradient
MaterialScatter ==
    /\ tpc = "scatter"
    /\ scatters' = scatters + 1
    /\ \E scattered \in {Scatter(trace_hit, trace_rng, trace_ray)} :
           /\ trace_rng' = scattered.rng
           /\ IF scattered.some
              THEN /\ frames' = Append(frames, [ray |-> trace_ray,
                                                attenuation |-> scattered.attenuation])
                   /\ trace_ray' = scattered.ray
                   /\ trace_depth' = trace_depth + 1
                   /\ tpc' = "call"
                   /\ UNCHANGED base_case
              ELSE /\ tpc' = "sky"
                   /\ base_case' = "absorbed"
                   /\ UNCHANGED << frames, trace_ray, trace_depth >>
    /\ UNCHANGED << trace_input, trace_hit, trace_color, trace_returns,
                    scene_queries, trace_run, first_run, render_vars, bvh_vars,
                    builder_vars, shape_vars, asm_vars,
                    part_vars >>

\* the three statements after the if let: the gradient of the ray's direction
ReturnSky ==
    /\ tpc = "sky"
    /\ trace_color' = SkyGradient(trace_ray)
    /\ tpc' = "return"
    /\ UNCHANGED << trace_input, trace_rng, trace_ray, trace_depth, trace_hit,
                    frames, trace_returns, scene_queries, scatters, base_case,
                    trace_run, first_run, render_vars, bvh_vars,
                    builder_vars, shape_vars, asm_vars,
                    part_vars >>

\* a recursive call returns to the frame below it:
\* return attenuation * ray_color_inner(rng, depth + 1, ...)
RayColorReturn ==
    /\ tpc = "return"
    /\ trace_depth > 0
    /\ trace_color' = Attenuate(frames[trace_depth].attenuation, trace_color)
    /\ trace_returns' = << trace_color >> \o trace_returns
    /\ trace_ray' = frames[trace_depth].ray
    /\ trace_depth' = trace_depth - 1
    /\ UNCHANGED << tpc, trace_input, trace_rng, trace_hit, frames,
                    scene_queries, scatters, base_case, trace_run, first_run,
                    render_vars, bvh_vars,
                    builder_vars, shape_vars, asm_vars,
                    part_vars >>

\* the call at depth 0 returns to ray_color
RayColorDone ==
    /\ tpc = "return"
    /\ trace_depth = 0
    /\ trace_returns' = << trace_color >> \o trace_returns
    /\ tpc' = "done"
    /\ UNCHANGED << trace_input, trace_rng, trace_ray, trace_depth, trace_hit,
                    frames, trace_color, scene_queries, scatters, base_case,
                    trace_run, first_run, render_vars, bvh_vars,
                    builder_vars, shape_vars, asm_vars,
                    part_vars >>

\* ray_color is called a second time with the inputs of the first call
TraceAgain ==
    /\ tpc = "done"
    /\ trace_run = 1
    /\ first_run' = [color |-> trace_color, rng |-> trace_rng, ran |-> TRUE]
    /\ trace_run' = 2
    /\ trace_rng' = trace_input.rng
    /\ trace_ray' = trace_input.ray
    /\ trace_depth' = 0
    /\ trace_hit' = "miss"
    /\ frames' = << >>
    /\ trace_color' = Black
    /\ trace_returns' = << >>
    /\ scene_queries' = 0
    /\ scatters' = 0
    /\ base_case' = "none"
    /\ tpc' = "call"
    /\ UNCHANGED << trace_input, render_vars, bvh_vars,
                    builder_vars, shape_vars, asm_vars,
                    part_vars >>

(***************************************************************************)
(* ImageSpecBuilder (camera.rs) and CameraBuilder (camera/builder.rs).     *)
(* An Option is a sequence: << >> for None, << x >> for Some(x).           *)
(***************************************************************************)
None == << >>

Some(x) == << x >>

IsSome(option) == option # None

\* a usize; usize::MAX is kept as a mark, the other values as themselves
Usize(n) == [max |-> FALSE, v |-> n]

UsizeMax == [max |-> TRUE, v |-> 0]

\* (n as f64 / d as f64) as usize for n, d >= 0: the cast truncates, takes NaN
\* (0 / 0) to 0 and infinity to usize::MAX
DivAsUsize(n, d) ==
    IF d = 0
    THEN IF n = 0 THEN Usize(0) ELSE UsizeMax
    ELSE Usize(n \div d)

\* u.max(1)
AtLeastOne(u) == IF u.max THEN u ELSE Usize(Max(u.v, 1))

\* the aspect ratios of the model, as fractions num / den
AspectRatios == { [num |-> 0, den |-> 1], [num |-> 1, den |-> 2],
                  [num |-> 1, den |-> 1], [num |-> 2, den |-> 1] }

Panic == [ok |-> FALSE]

\* ImageSpecBuilder::build accepting every builder with at most one field unset
ImageSpecBuildLenient(builder) ==
    IF IsSome(builder.width) /\ IsSome(builder.height)
    THEN [ok |-> TRUE, width |-> Usize(builder.width[1]),
          height |-> Usize(builder.height[1]),
          aspect_ratio |-> [num |-> builder.width[1], den |-> builder.height[1]]]
    ELSE Panic

\* ImageSpecBuilder::build: the match of l.43-71
ImageSpecBuild(builder) ==
    CASE IsSome(builder.width) /\ IsSome(builder.height) /\ ~IsSome(builder.aspect_ratio) ->
            [ok |-> TRUE, width |-> Usize(builder.width[1]),
             height |-> Usize(builder.height[1]),
             aspect_ratio |-> [num |-> builder.width[1], den |-> builder.height[1]]]
      [] IsSome(builder.width) /\ ~IsSome(builder.height) /\ IsSome(builder.aspect_ratio) ->
            [ok |-> TRUE, width |-> Usize(builder.width[1]),
             height |-> AtLeastOne(DivAsUsize(builder.width[1] * builder.aspect_ratio[1].den,
                                              builder.aspect_ratio[1].num)),
             aspect_ratio |-> builder.aspect_ratio[1]]
      [] ~IsSome(builder.width) /\ IsSome(builder.height) /\ IsSome(builder.aspect_ratio) ->
            [ok |-> TRUE,
             width |-> AtLeastOne(DivAsUsize(builder.aspect_ratio[1].num,
                                             builder.aspect_ratio[1].den * builder.height[1])),
             height |-> Usize(builder.height[1]),
             aspect_ratio |-> builder.aspect_ratio[1]]
      [] OTHER -> Panic

\* the most significant one bit of a u64 that is not 0
HighBit(u) == CHOOSE h \in u : \A b \in u : b <= h

\* u + 2^bit, for u a multiple of 2^bit
AddBit(u, bit) ==
    LET carry == CHOOSE c \in bit..U64Bits :
                    /\ c \notin u
                    /\ \A b \in bit..(c - 1) : b \in u
    IN  { b \in u : b > carry } \cup {carry}

\* n as f64 for a usize n: the integer the cast yields, as its bits.  An f64
\* holds F64Mantissa significant bits; the cast rounds to the nearest such
\* number, ties to the one with an even last bit
AsF64(u) ==
    IF u = {} THEN {}
    ELSE LET drop == HighBit(u) + 1 - F64Mantissa
         IN  IF drop <= 0 THEN u
             ELSE LET kept == { b \in u : b >= drop }
                      half == (drop - 1) \in u
                      sticky == \E b \in u : b < drop - 1
                      odd == drop \in u
                  IN  IF half /\ (sticky \/ odd) THEN AddBit(kept, drop) ELSE kept

\* the value of a u64 below 2^SmallBits
RECURSIVE SmallValue(_)
SmallValue(u) ==
    IF u = {} THEN 0
    ELSE LET b == CHOOSE x \in u : TRUE
         IN  Pow2(b) + SmallValue(u \ {b})

\* f.sqrt() for the integer-valued f64 f, where the model can tell it: f below
\* 2^SmallBits, or f a power of two.  exact is samples_sqrt.fract() == 0.0
SqrtF64(f) ==
    CASE f = {} -> [exact |-> TRUE, root |-> {}]
      [] f # {} /\ HighBit(f) < SmallBits ->
            IF IsSquare(SmallValue(f))
            THEN [exact |-> TRUE, root |-> U64(Sqrt(SmallValue(f)))]
            ELSE [exact |-> FALSE, root |-> {}]
      [] f # {} /\ HighBit(f) >= SmallBits /\ Cardinality(f) = 1 ->
            IF HighBit(f) % 2 = 0
            THEN [exact |-> TRUE, root |-> {HighBit(f) \div 2}]
            ELSE [exact |-> FALSE, root |-> {}]

\* whether the u64 n is the square of an integer, for the n SqrtF64 handles
\* and their neighbours n + 1
IsPerfectSquare(n) ==
    CASE n = {} -> TRUE
      [] n # {} /\ HighBit(n) < SmallBits -> IsSquare(SmallValue(n))
      [] n # {} /\ HighBit(n) >= SmallBits /\ Cardinality(n) = 1 -> HighBit(n) % 2 = 0
      [] n # {} /\ HighBit(n) >= SmallBits /\ Cardinality(n) = 2 /\ 0 \in n -> FALSE

\* the samples_per_pixel counts of the model: 0..MaxSamples, and 2^54 and
\* 2^54 + 1, the first pair of neighbours that the cast to f64 merges
SampleCounts ==
    { U64(n) : n \in 0..MaxSamples } \cup { {F64Mantissa + 1}, {F64Mantissa + 1, 0} }

PixelSamplers ==
    [kind : {"Uniform", "Random"}, samples : SampleCounts]

\* the match on the sampler of l.59-71
ResolveSampler(sampler) ==
    IF sampler.kind = "Uniform"
    THEN LET samples_sqrt == SqrtF64(AsF64(sampler.samples))
         IN  IF ~samples_sqrt.exact THEN Panic
             ELSE [ok |-> TRUE,
                   sampler |-> [kind |-> "Uniform", samples |-> samples_sqrt.root]]
    ELSE [ok |-> TRUE, sampler |-> sampler]

\* CameraBuilder::build, l.55-72 and the Camera of l.108-133: the fields the
\* three required parameters decide
CameraBuild(builder) ==
    IF ~IsSome(builder.image_spec) THEN Panic
    ELSE IF ~IsSome(builder.pixel_sampler) THEN Panic
    ELSE IF ~ResolveSampler(builder.pixel_sampler[1]).ok THEN Panic
    ELSE IF ~IsSome(builder.max_ray_depth) THEN Panic
    ELSE [ok |-> TRUE,
          image_width |-> builder.image_spec[1].width,
          image_height |-> builder.image_spec[1].height,
          pixel_sampler |-> ResolveSampler(builder.pixel_sampler[1]).sampler,
          depth |-> builder.max_ray_depth[1]]

\* ImageSpecBuilder::default(), CameraBuilder::default()
BuilderInit ==
    /\ ipc = "builder"
    /\ image_spec_builder = [width |-> None, height |-> None, aspect_ratio |-> None]
    /\ image_spec = Panic
    /\ cpc = "builder"
    /\ camera_builder = [image_spec |-> None, pixel_sampler |-> None,
                         max_ray_depth |-> None]
    /\ camera = Panic

BuilderIdle == BuilderInit

\* ImageSpecBuilder::width
SetWidth(width) ==
    /\ ipc = "builder"
    /\ image_spec_builder' = [image_spec_builder EXCEPT !.width = Some(width)]
    /\ UNCHANGED << ipc, image_spec, cpc, camera_builder, camera,
                    render_vars, bvh_vars, trace_vars, shape_vars, asm_vars,
                    part_vars >>

\* ImageSpecBuilder::height
SetHeight(height) ==
    /\ ipc = "builder"
    /\ image_spec_builder' = [image_spec_builder EXCEPT !.height = Some(height)]
    /\ UNCHANGED << ipc, image_spec, cpc, camera_builder, camera,
                    render_vars, bvh_vars, trace_vars, shape_vars, asm_vars,
                    part_vars >>

\* ImageSpecBuilder::aspect_ratio
SetAspectRatio(aspect_ratio) ==
    /\ ipc = "builder"
    /\ image_spec_builder' =
            [image_spec_builder EXCEPT !.aspect_ratio = Some(aspect_ratio)]
    /\ UNCHANGED << ipc, image_spec, cpc, camera_builder, camera,
                    render_vars, bvh_vars, trace_vars, shape_vars, asm_vars,
                    part_vars >>

\* ImageSpecBuilder::build: it consumes the builder
BuildImageSpec ==
    /\ ipc = "builder"
    /\ image_spec' = ImageSpecBuild(image_spec_builder)
    /\ ipc' = IF ImageSpecBuild(image_spec_builder).ok THEN "built" ELSE "panicked"
    /\ UNCHANGED << image_spec_builder, cpc, camera_builder, camera,
                    render_vars, bvh_vars, trace_vars, shape_vars, asm_vars,
                    part_vars >>

\* CameraBuilder::image_spec, with the ImageSpec that was built
SetImageSpec ==
    /\ cpc = "builder"
    /\ ipc = "built"
    /\ camera_builder' = [camera_builder EXCEPT !.image_spec = Some(image_spec)]
    /\ UNCHANGED << ipc, image_spec_builder, image_spec, cpc, camera,
                    render_vars, bvh_vars, trace_vars, shape_vars, asm_vars,
                    part_vars >>

\* CameraBuilder::uniform_sampler, CameraBuilder::random_sampler
SetSampler(sampler) ==
    /\ cpc = "builder"
    /\ camera_builder' = [camera_builder EXCEPT !.pixel_sampler = Some(sampler)]
    /\ UNCHANGED << ipc, image_spec_builder, image_spec, cpc, camera,
                    render_vars, bvh_vars, trace_vars, shape_vars, asm_vars,
                    part_vars >>

\* CameraBuilder::max_ray_depth
SetMaxRayDepth(depth) ==
    /\ cpc = "builder"
    /\ camera_builder' = [camera_builder EXCEPT !.max_ray_depth = Some(depth)]
    /\ UNCHANGED << ipc, image_spec_builder, image_spec, cpc, camera,
                    render_vars, bvh_vars, trace_vars, shape_vars, asm_vars,
                    part_vars >>

\* CameraBuilder::build: it consumes the builder
BuildCamera ==
    /\ cpc = "builder"
    /\ camera' = CameraBuild(camera_builder)
    /\ cpc' = IF CameraBuild(camera_builder).ok THEN "built" ELSE "panicked"
    /\ UNCHANGED << ipc, image_spec_builder, image_spec, camera_builder,
                    render_vars, bvh_vars, trace_vars, shape_vars, asm_vars,
                    part_vars >>

(***************************************************************************)
(* Single calls of Sphere::hit and AABB::hit.                              *)
(***************************************************************************)
\* the spheres of the scenes, and spheres of radius 0 and of a negative radius
ShapeSpheres ==
    { NewSphere(k.center, k.radius, 1) : k \in SphereKinds }
    \cup { NewSphere(<< 2 * k, 0, 0 >>, r, 1) : k \in 0..MaxCoord, r \in {-1, 0} }

\* -x on f64
FNeg(x) == IF x.k = "nan" THEN NaN ELSE [k |-> x.k, v |-> 0 - x.v]

\* a + b on f64: infinity - infinity is NaN
FAdd(a, b) ==
    IF a.k = "nan" \/ b.k = "nan" THEN NaN
    ELSE IF a.k = "inf" THEN (IF b.k = "inf" /\ b # a THEN NaN ELSE a)
    ELSE IF b.k = "inf" THEN b
    ELSE Num(a.v + b.v)

\* the f64 product of the finite number n and x
FTimes(n, x) == IF x.k = "nan" THEN NaN ELSE FMul(n, x)

\* Vec3::dot of a finite vector and one whose components may be infinite or NaN
FDot(u, v) == FAdd(FAdd(FTimes(u[1], v[1]), FTimes(u[2], v[2])), FTimes(u[3], v[3]))

\* (intersection_point - center) / self.radius at t = t2 / 2, kept multiplied
\* by 2 * |radius|; a division by the radius 0.0 gives NaN or an infinity
OutwardNormal(sphere, ray, t2) ==
    [i \in 1..3 |->
        LET twice == 2 * (ray.origin[i] - sphere.center[i]) + t2 * ray.direction[i]
        IN  IF sphere.radius = 0 THEN FTimes(twice, INFINITY)
            ELSE IF sphere.radius > 0 THEN Num(twice)
            ELSE Num(0 - twice)]

\* front_face and normal of the HitRecord calculate_hit returns
FaceNormal(sphere, ray, t2) ==
    LET outward_normal == OutwardNormal(sphere, ray, t2)
        front_face == FLt(FDot(ray.direction, outward_normal), Num(0))
    IN  [front_face |-> front_face,
         normal |-> IF front_face
                    THEN outward_normal
                    ELSE [i \in 1..3 |-> FNeg(outward_normal[i])]]

\* Sphere::hit with the face and the normal of the record
SphereHitRecord(sphere, ray, ray_trange) ==
    LET found == SphereHit(sphere, ray, ray_trange)
    IN  IF found.hit
        THEN [hit |-> TRUE, t |-> found.t, material |-> found.material,
              front_face |-> FaceNormal(sphere, ray, found.t).front_face,
              normal |-> FaceNormal(sphere, ray, found.t).normal]
        ELSE found

\* boxes in front of, around and behind the origins of the rays, some of them
\* of no thickness on the x or the y axis
ShapeBoxes ==
    { FromVecs(<< a, -1, -1 >>, << b, 1, 1 >>) : a, b \in (-1)..(2 * MaxCoord + 2) }
    \cup { FromVecs(<< -1, 0, -1 >>, << 1, 0, 1 >>) }

\* ray_trange, doubled like t: ranges that hold both roots, one or none
ShapeRanges ==
    [start : {Num(-8), Num(0), Num(2)}, end : {Num(2), Num(6), INFINITY}]

NoInterval == [some |-> FALSE, start |-> NaN, end |-> NaN]

ShapeIdle ==
    /\ shape_pc = "idle"
    /\ shape_ray = [origin |-> << 0, 0, 0 >>, direction |-> << 1, 0, 0 >>, neg_zero |-> FALSE]
    /\ shape_sphere = NewSphere(<< 0, 0, 0 >>, 1, 1)
    /\ shape_range = [start |-> Num(0), end |-> INFINITY]
    /\ shape_box = FromVecs(<< 0, 0, 0 >>, << 0, 0, 0 >>)
    /\ sphere_record = NoHit
    /\ aabb_record = NoInterval

\* a ray, before it is tested against a shape
ShapeInit ==
    /\ shape_pc = "ray"
    /\ shape_ray \in Rays
    /\ shape_sphere = NewSphere(<< 0, 0, 0 >>, 1, 1)
    /\ shape_range = [start |-> Num(0), end |-> INFINITY]
    /\ shape_box = FromVecs(<< 0, 0, 0 >>, << 0, 0, 0 >>)
    /\ sphere_record = NoHit
    /\ aabb_record = NoInterval

\* sphere.hit(ray, ray_trange): calculate_hit with the sphere's centre
CallSphereHit(sphere, range) ==
    /\ shape_pc = "ray"
    /\ ExactRay(<< sphere >>, shape_ray)
    /\ shape_sphere' = sphere
    /\ shape_range' = range
    /\ sphere_record' = SphereHitRecord(sphere, shape_ray, range)
    /\ shape_pc' = "sphere"
    /\ UNCHANGED << shape_ray, shape_box, aabb_record, render_vars, bvh_vars,
                    trace_vars, builder_vars, asm_vars,
                    part_vars >>

\* aabb.hit(ray)
CallAabbHit(box) ==
    /\ shape_pc = "ray"
    /\ shape_box' = box
    /\ aabb_record' = AabbHitRange(box, shape_ray)
    /\ shape_pc' = "aabb"
    /\ UNCHANGED << shape_ray, shape_sphere, shape_range, sphere_record,
                    render_vars, bvh_vars, trace_vars, builder_vars, asm_vars,
                    part_vars >>

(***************************************************************************)
(* The placing of tiles in Camera::render's image_buffer and in the        *)
(* texture of sdl_thread.  A colour component is kept in units of 1/256.   *)
(***************************************************************************)
BlackPixel == << 0, 0, 0 >>

\* the colour sample_pixel and gamma_corrected give for pixel (j, i): one value
\* per pixel, never black, with a blue component of 1.0
PixelColor(j, i) == << j, i, 256 >>

\* Color::into_u8: (256.0 * c) as u8, a cast that saturates
IntoU8(color) == [c \in 1..3 |-> Min(Max(color[c], 0), 255)]

\* a result filled column by column: result[(i * height) + j]
RenderRectByColumn(top_left, rect) ==
    [index \in 0..(rect[1] * rect[2] - 1) |->
        PixelColor(top_left[1] + (index % rect[1]), top_left[2] + (index \div rect[1]))]

\* render_rect: result[(j * width) + i] is the colour of pixel
\* (top_left.0 + j, top_left.1 + i)
RenderRect(top_left, rect) ==
    [index \in 0..(rect[1] * rect[2] - 1) |->
        PixelColor(top_left[1] + (index \div rect[2]), top_left[2] + (index % rect[2]))]

\* what a worker sends for tile idx: (top_left, rect, result)
WorkerMessage(idx, h, w) ==
    LET p == GetParameters(idx, h, w)
    IN  [top_left |-> p.top_left, rect |-> p.rect,
         result |-> RenderRect(p.top_left, p.rect)]

\* where a received tile is put: at the top_left of the message itself
TileOriginByArrival(msg, arrival, h, w) == GetParameters(arrival, h, w).top_left

TileOrigin(msg, arrival, h, w) == msg.top_left

\* image_buffer keeps the colour, the texture its bytes
Convert(as_u8, color) == IF as_u8 THEN IntoU8(color) ELSE color

\* the loops `for dy in 0..rect.0 { for dx in 0..rect.1 { buffer[index] =
\* convert(result[(dy * rect.1) + dx]) } }` for the iterations lo..hi-1 of the
\* flattened loop, with index = ((top_left.0 + dy) * image_width) + (top_left.1 + dx)
RECURSIVE PlaceRange(_, _, _, _, _, _, _)
PlaceRange(buffer, top_left, msg, w, as_u8, lo, hi) ==
    IF hi <= lo
    THEN buffer
    ELSE IF hi - lo = 1
    THEN LET dy == lo \div msg.rect[2]
             dx == lo % msg.rect[2]
             index == ((top_left[1] + dy) * w) + (top_left[2] + dx)
         IN  [buffer EXCEPT ![index] = Convert(as_u8, msg.result[(dy * msg.rect[2]) + dx])]
    ELSE LET mid == lo + ((hi - lo) \div 2)
         IN  With(PlaceRange(buffer, top_left, msg, w, as_u8, lo, mid), LAMBDA first :
                 PlaceRange(first, top_left, msg, w, as_u8, mid, hi))

Place(buffer, top_left, msg, w, as_u8) ==
    PlaceRange(buffer, top_left, msg, w, as_u8, 0, msg.rect[1] * msg.rect[2])

AsmIdle ==
    /\ asm_pc = "idle"
    /\ asm_height = 0
    /\ asm_width = 0
    /\ asm_pending = {}
    /\ asm_i = 0
    /\ asm_out_of_order = FALSE
    /\ image_buffer = << >>
    /\ asm_out = << >>
    /\ texture = << >>

\* let mut image_buffer = vec![Color::black(); pixel_count]; no tile has arrived
AsmInit ==
    /\ asm_pc = "recv"
    /\ asm_height \in Dims(MaxTiles, RectRows)
    /\ asm_width \in Dims(MaxTiles, RectCols)
    /\ RectCount(asm_height, asm_width) <= MaxTiles
    /\ asm_height % RectRows = asm_width % RectCols
    /\ asm_pending = 0..(RectCount(asm_height, asm_width) - 1)
    /\ asm_i = 0
    /\ asm_out_of_order = FALSE
    /\ image_buffer = [index \in 0..(asm_height * asm_width - 1) |-> BlackPixel]
    /\ asm_out = << >>
    /\ texture = [index \in 0..(asm_height * asm_width - 1) |-> BlackPixel]

\* one iteration of `for i in 0..rect_count`: a tile arrives, whichever worker
\* finished first, is copied into image_buffer and sent on
AssemblerPlace(idx) ==
    /\ asm_pc = "recv"
    /\ asm_i < RectCount(asm_height, asm_width)
    /\ idx \in asm_pending
    /\ HasRoom(asm_out, MaxOutCap)
    /\ \E msg \in {WorkerMessage(idx, asm_height, asm_width)} :
        /\ image_buffer' = Place(image_buffer,
                                 TileOrigin(msg, asm_i, asm_height, asm_width),
                                 msg, asm_width, FALSE)
        /\ asm_out' = Append(asm_out, [arrival |-> asm_i, msg |-> msg])
    /\ asm_pending' = asm_pending \ {idx}
    /\ asm_out_of_order' = (asm_out_of_order \/ idx # asm_i)
    /\ asm_i' = asm_i + 1
    /\ UNCHANGED << asm_pc, asm_height, asm_width, texture, render_vars, bvh_vars,
                    trace_vars, builder_vars, shape_vars,
                    part_vars >>

\* sdl_thread: `while let Ok((top_left, size, result)) = receiver.try_recv()`,
\* the tile is copied into the texture; texture[index][c] stands for
\* buffer[index * 3 + c - 1]
ConsumerPlace ==
    /\ asm_pc = "recv"
    /\ asm_out # << >>
    /\ texture' = Place(texture,
                        TileOrigin(Head(asm_out).msg, Head(asm_out).arrival,
                                   asm_height, asm_width),
                        Head(asm_out).msg, asm_width, TRUE)
    /\ asm_out' = Tail(asm_out)
    /\ UNCHANGED << asm_pc, asm_height, asm_width, asm_pending, asm_i,
                    asm_out_of_order, image_buffer, render_vars, bvh_vars,
                    trace_vars, builder_vars, shape_vars,
                    part_vars >>

\* every tile was received and shown
AssemblerDone ==
    /\ asm_pc = "recv"
    /\ asm_i = RectCount(asm_height, asm_width)
    /\ asm_out = << >>
    /\ asm_pc' = "done"
    /\ UNCHANGED << asm_height, asm_width, asm_pending, asm_i, asm_out_of_order,
                    image_buffer, asm_out, texture, render_vars, bvh_vars,
                    trace_vars, builder_vars, shape_vars,
                    part_vars >>

(***************************************************************************)
(* f64 arithmetic on the middles of bounding boxes.  A non-negative f64 is *)
(* the record [m, e] of value m * 2^e, m an integer of at most F64Mantissa *)
(* significant bits kept as the set of its one bits.                       *)
(***************************************************************************)
\* the f64 of the small integer n
F64Of(n) == [m |-> U64(n), e |-> 0]

\* m * 2^k as 64 bits (no bit is shifted out for the values of the model)
Align(x, e) == Shl(x.m, x.e - e)

\* a < b for two integers given by their bits
BitsLess(a, b) ==
    \E i \in b \ a : \A j \in (i + 1)..(U64Bits - 1) : (j \in a) <=> (j \in b)

\* x < y on f64
F64Lt(x, y) == BitsLess(Align(x, Min(x.e, y.e)), Align(y, Min(x.e, y.e)))

\* x + y on f64: the exact sum, rounded to nearest, ties to even
F64Add(x, y) ==
    [m |-> AsF64(WrappingAdd(Align(x, Min(x.e, y.e)), Align(y, Min(x.e, y.e)))),
     e |-> Min(x.e, y.e)]

\* the long division of the integer with the bits `bits` by n, for the bits
\* hi-1 down to lo, from the quotient and remainder in `at`
RECURSIVE DivRange(_, _, _, _, _)
DivRange(at, bits, n, lo, hi) ==
    IF hi - lo = 1
    THEN LET r == 2 * at.r + (IF lo \in bits THEN 1 ELSE 0)
         IN  IF r >= n
             THEN [q |-> at.q \cup {lo}, r |-> r - n]
             ELSE [q |-> at.q, r |-> r]
    ELSE LET mid == lo + ((hi - lo) \div 2)
         IN  With(DivRange(at, bits, n, mid, hi), LAMBDA upper :
                 DivRange(upper, bits, n, lo, mid))

\* x / (n as f64) on f64 for a small length n: the quotient of the mantissa
\* shifted up to bit 62, with a last bit that tells whether a remainder is
\* left, rounded to nearest, ties to even
F64DivInt(x, n) ==
    IF x.m = {} THEN x
    ELSE LET up == (U64Bits - 2) - HighBit(x.m)
             division == DivRange([q |-> {}, r |-> 0], Shl(x.m, up), n, 0, U64Bits - 1)
             quotient == Shl(division.q, 1) \cup (IF division.r # 0 THEN {0} ELSE {})
         IN  [m |-> AsF64(quotient), e |-> x.e - up - 1]

\* .sum::<f64>() of the slice: the middles are added one by one from 0.0
RECURSIVE F64Sum(_)
F64Sum(slice) ==
    IF slice = << >>
    THEN F64Of(0)
    ELSE F64Add(F64Sum(SubSeq(slice, 1, Len(slice) - 1)), slice[Len(slice)])

\* the f64 literals 0.1 and 0.7
Tenth == [m |-> U64Hex(<< 0, 0, 1, 9, 9, 9, 9, 9, 9, 9, 9, 9, 9, 9, 9, 10 >>), e |-> -56]

SevenTenths == [m |-> U64Hex(<< 0, 0, 1, 6, 6, 6, 6, 6, 6, 6, 6, 6, 6, 6, 6, 6 >>), e |-> -53]

(***************************************************************************)
(* The branch `length > 2` of BVHNode::inner_from_vec on the middles of a  *)
(* slice on the chosen axis: mean, sort, split.                            *)
(***************************************************************************)
\* the middles tried: 0.1, 0.7, 1.0 and 3.0
SplitMiddles == {Tenth, SevenTenths, F64Of(1), F64Of(3)}

SplitSlices == UNION { [1..n -> SplitMiddles] : n \in 3..MaxSlice }

\* slice::sort_by(box_compare) on the middles: a stable sort
RECURSIVE InsertSortedF64(_, _)
InsertSortedF64(sorted, x) ==
    IF sorted = << >>
    THEN << x >>
    ELSE IF ~F64Lt(x, Head(sorted))
    THEN << Head(sorted) >> \o InsertSortedF64(Tail(sorted), x)
    ELSE << x >> \o sorted

RECURSIVE SortF64(_)
SortF64(slice) ==
    IF slice = << >>
    THEN << >>
    ELSE InsertSortedF64(SortF64(SubSeq(slice, 1, Len(slice) - 1)), slice[Len(slice)])

\* let mean = ...sum::<f64>() / length as f64
MeanOf(slice) == F64DivInt(F64Sum(slice), Len(slice))

\* .position(|x| x >= mean): the first index from 0, or -1 for None
PositionF64(sorted, mean) ==
    IF \E i \in 1..Len(sorted) : ~F64Lt(sorted[i], mean)
    THEN (CHOOSE i \in 1..Len(sorted) :
            /\ ~F64Lt(sorted[i], mean)
            /\ \A j \in 1..(i - 1) : F64Lt(sorted[j], mean)) - 1
    ELSE -1

\* hittable/mod.rs: .rposition(|x| x <= mean): the last index, or -1 for None
RPositionF64(sorted, mean) ==
    IF \E i \in 1..Len(sorted) : ~F64Lt(mean, sorted[i])
    THEN (CHOOSE i \in 1..Len(sorted) :
            /\ ~F64Lt(mean, sorted[i])
            /\ \A j \in (i + 1)..Len(sorted) : F64Lt(mean, sorted[j])) - 1
    ELSE -1

SplitIdle ==
    /\ split_pc = "idle"
    /\ middles = << >>
    /\ sorted_middles = << >>
    /\ split_mean = F64Of(0)
    /\ split_index = 0
    /\ split_old = 0

\* a slice of more than two objects, given by their middles on the axis
SplitInit ==
    /\ split_pc = "slice"
    /\ middles \in SplitSlices
    /\ sorted_middles = << >>
    /\ split_mean = F64Of(0)
    /\ split_index = 0
    /\ split_old = 0

\* the mean of the slice as it stands, the sort, and the split of both
\* revisions of the builder
SortAndSplit ==
    /\ split_pc = "slice"
    /\ \E mean \in {MeanOf(middles)} : \E sorted \in {SortF64(middles)} :
        /\ split_mean' = mean
        /\ sorted_middles' = sorted
        /\ split_index' = ClampSplit(PositionF64(sorted, mean), Len(sorted))
        /\ split_old' = ClampSplit(RPositionF64(sorted, mean), Len(sorted))
    /\ split_pc' = "split"
    /\ UNCHANGED << middles, render_vars, bvh_vars, trace_vars, builder_vars,
                    shape_vars, asm_vars, sampler_vars >>

(***************************************************************************)
(* Camera::sample_pixel with PixelSampler::Uniform (camera/mod.rs l.148-164,*)
(* camera.rs l.367-383).  The f64 values of the loop are written as whole  *)
(* multiples of 1 / (2 * samples_sqrt); for a samples_sqrt that is a power *)
(* of two every one of them is a multiple of a power of two far inside the *)
(* 53 bits of an f64, so no operation of the loop rounds.                  *)
(***************************************************************************)
\* the sides of the grids that are run
GridSides == { Pow2(k) : k \in 0..MaxGridLog }

\* n as f64
AsF64Halves(n, s) == n * 2 * s

\* let subpixel_interval = 1.0 / samples_sqrt as f64
SubpixelInterval(s) == AsF64Halves(1, s) \div s

\* let subpixel_offset = subpixel_interval / 2.0 + 0.5
SubpixelOffset(s) == SubpixelInterval(s) \div 2 + AsF64Halves(1, s) \div 2

\* j as f64 + yi as f64 * subpixel_interval - subpixel_offset
SubpixelCoord(p, k, s) ==
    AsF64Halves(p, s) + k * SubpixelInterval(s) - SubpixelOffset(s)

SamplerIdle ==
    /\ sampler_pc = "idle"
    /\ pixel_j = 0
    /\ pixel_i = 0
    /\ sampler_sqrt = 1
    /\ loop_yi = 0
    /\ loop_xi = 0
    /\ sample_points = << >>

\* sample_pixel is called for a pixel of the image
SamplerInit ==
    /\ sampler_pc = "loop"
    /\ pixel_j \in 0..MaxDim
    /\ pixel_i \in 0..MaxDim
    /\ sampler_sqrt \in GridSides
    /\ loop_yi = 0
    /\ loop_xi = 0
    /\ sample_points = << >>

\* one pass of the inner loop: dy, dx and self.sample_at(rng, dx, dy, world)
SamplePixelAt ==
    /\ sampler_pc = "loop"
    /\ loop_yi < sampler_sqrt
    /\ sample_points' =
          Append(sample_points,
                 [dx |-> SubpixelCoord(pixel_i, loop_xi, sampler_sqrt),
                  dy |-> SubpixelCoord(pixel_j, loop_yi, sampler_sqrt)])
    /\ IF loop_xi + 1 < sampler_sqrt
       THEN loop_xi' = loop_xi + 1 /\ loop_yi' = loop_yi
       ELSE loop_xi' = 0 /\ loop_yi' = loop_yi + 1
    /\ UNCHANGED << sampler_pc, pixel_j, pixel_i, sampler_sqrt, split_vars,
                    render_vars, bvh_vars, trace_vars, builder_vars,
                    shape_vars, asm_vars >>

\* the loops are over: accumulator / samples_sqrt.pow(2) as f64
SamplePixelReturn ==
    /\ sampler_pc = "loop"
    /\ loop_yi = sampler_sqrt
    /\ sampler_pc' = "done"
    /\ UNCHANGED << pixel_j, pixel_i, sampler_sqrt, loop_yi, loop_xi,
                    sample_points, split_vars, render_vars, bvh_vars,
                    trace_vars, builder_vars, shape_vars, asm_vars >>

\* no function is being called
UnitIdle ==
    TraceIdle /\ BuilderIdle /\ ShapeIdle /\ AsmIdle /\ SplitIdle /\ SamplerIdle

WorkerStep(w) ==
    /\ w \in Workers
    /\ \/ WorkerClaim(w)
       \/ WorkerSendOk(w)
       \/ WorkerSendErr(w)

AssemblerStep ==
    \/ AssemblerRecv
    \/ AssemblerForwardOk
    \/ AssemblerCancelled
    \/ AssemblerWrite

Init == RenderInit /\ BvhIdle /\ UnitIdle

Next ==
    \/ \E w \in Workers : WorkerClaim(w)
    \/ \E w \in Workers : WorkerSendOk(w)
    \/ \E w \in Workers : WorkerSendErr(w)
    \/ AssemblerRecv
    \/ AssemblerForwardOk
    \/ AssemblerCancelled
    \/ AssemblerWrite
    \/ ScopeJoin
    \/ ConsumerRecv
    \/ ConsumerDrop

Spec == Init /\ [][Next]_vars

\* a step of one of the threads of the render
RenderStep ==
    \/ \E w \in 1..MaxThreads : WorkerStep(w)
    \/ AssemblerStep
    \/ ScopeJoin

\* the operating system keeps running some thread of the render that can take
\* a step
ThreadsFair == WF_vars(RenderStep)

\* a render whose consumer may quit at any moment, under fair scheduling
CancelSpec == Init /\ [][Next]_vars /\ ThreadsFair

\* a render whose consumer never quits and keeps receiving: no send fails
NextKeepReceiving ==
    \/ \E w \in Workers : WorkerClaim(w)
    \/ \E w \in Workers : WorkerSendOk(w)
    \/ AssemblerRecv
    \/ AssemblerForwardOk
    \/ AssemblerWrite
    \/ ScopeJoin
    \/ ConsumerRecv

KeepReceivingSpec ==
    Init /\ [][NextKeepReceiving]_vars /\ ThreadsFair /\ WF_vars(ConsumerRecv)

\* no render: an empty image whose scope has not run
RenderIdle ==
    /\ RenderInit
    /\ image_height = 0
    /\ image_width = 0
    /\ threads = 1
    /\ out_cap = 1

BvhInit == RenderIdle /\ BvhInput /\ UnitIdle

BvhNext ==
    \/ IntoBvh
    \/ \E r \in Rays : \E range \in Ranges : Hit(r, range)

\* a scene is built into a BVH and queried with one ray
BvhSpec == BvhInit /\ [][BvhNext]_vars

TraceNext ==
    \/ RayColorCutoff
    \/ WorldHit
    \/ MaterialScatter
    \/ ReturnSky
    \/ RayColorReturn
    \/ RayColorDone
    \/ TraceAgain

\* the thread that called ray_color keeps running
TraceFair == WF_vars(TraceNext)

TraceStart ==
    RenderIdle /\ BvhIdle /\ SamplerIdle
    /\ TraceInit /\ BuilderIdle /\ ShapeIdle /\ AsmIdle /\ SplitIdle

\* one ray is traced, then traced again from the same inputs
TraceSpec == TraceStart /\ [][TraceNext]_vars /\ TraceFair

BuilderNext ==
    \/ \E width \in 0..MaxDim : SetWidth(width)
    \/ \E height \in 0..MaxDim : SetHeight(height)
    \/ \E aspect_ratio \in AspectRatios : SetAspectRatio(aspect_ratio)
    \/ BuildImageSpec
    \/ SetImageSpec
    \/ \E sampler \in PixelSamplers : SetSampler(sampler)
    \/ \E depth \in 0..MaxDepth : SetMaxRayDepth(depth)
    \/ BuildCamera

BuilderStart ==
    RenderIdle /\ BvhIdle /\ SamplerIdle
    /\ TraceIdle /\ BuilderInit /\ ShapeIdle /\ AsmIdle /\ SplitIdle

\* an image spec and a camera are configured and built
BuilderSpec == BuilderStart /\ [][BuilderNext]_vars

ShapeNext ==
    \/ \E sphere \in ShapeSpheres : \E range \in ShapeRanges : CallSphereHit(sphere, range)
    \/ \E box \in ShapeBoxes : CallAabbHit(box)

ShapeStart ==
    RenderIdle /\ BvhIdle /\ SamplerIdle
    /\ TraceIdle /\ BuilderIdle /\ ShapeInit /\ AsmIdle /\ SplitIdle

\* one ray is tested against one sphere or one box
ShapeSpec == ShapeStart /\ [][ShapeNext]_vars

AsmNext ==
    \/ \E idx \in 0..(MaxTiles - 1) : AssemblerPlace(idx)
    \/ ConsumerPlace
    \/ AssemblerDone

AsmStart ==
    RenderIdle /\ BvhIdle /\ SamplerIdle
    /\ TraceIdle /\ BuilderIdle /\ ShapeIdle /\ AsmInit /\ SplitIdle

\* the tiles of one image arrive in any order and are placed
AsmSpec == AsmStart /\ [][AsmNext]_vars

SplitNext == SortAndSplit

SplitStart ==
    RenderIdle /\ BvhIdle /\ SamplerIdle
    /\ TraceIdle /\ BuilderIdle /\ ShapeIdle /\ AsmIdle /\ SplitInit

\* one slice of more than two objects is sorted and split
SplitSpec == SplitStart /\ [][SplitNext]_vars

SamplerNext ==
    \/ SamplePixelAt
    \/ SamplePixelReturn

SamplerStart ==
    RenderIdle /\ BvhIdle /\ TraceIdle /\ BuilderIdle /\ ShapeIdle /\ AsmIdle
    /\ SplitIdle /\ SamplerInit

\* one call of sample_pixel with the Uniform sampler
SamplerSpec == SamplerStart /\ [][SamplerNext]_vars

(***************************************************************************)
(* Properties of the tile scheduler.                                       *)
(***************************************************************************)
\* the tile of every index of the grid
AllTiles ==
    { GetParameters(i, image_height, image_width) : i \in 0..(rect_count - 1) }

\* the number of pixels of the tiles of bag b, each counted as often as delivered
RECURSIVE AreaOf(_, _)
AreaOf(b, tiles) ==
    IF tiles = {}
    THEN 0
    ELSE LET t == CHOOSE u \in tiles : TRUE
         IN  b[t] * t.rect[1] * t.rect[2] + AreaOf(b, tiles \ {t})

InsideImage(t) ==
    /\ t.top_left[1] >= 0
    /\ t.top_left[2] >= 0
    /\ t.rect[1] >= 0
    /\ t.rect[2] >= 0
    /\ t.top_left[1] + t.rect[1] <= image_height
    /\ t.top_left[2] + t.rect[2] <= image_width

Overlap(s, t) ==
    /\ s.top_left[1] < t.top_left[1] + t.rect[1]
    /\ t.top_left[1] < s.top_left[1] + s.rect[1]
    /\ s.top_left[2] < t.top_left[2] + t.rect[2]
    /\ t.top_left[2] < s.top_left[2] + s.rect[2]

\* C1: in a render that is not cancelled the tiles delivered to the consumer
\* cover every pixel of the image exactly once: at every moment every
\* delivered tile lies inside the image and no pixel is in two delivered tiles
\* (or twice in one), and once the loop is over every pixel is in one (the
\* delivered tiles, disjoint and inside the image, have as many pixels as it)
C1_TilesCoverImageOnce ==
    LET tiles == BagToSet(delivered)
    IN  /\ \A t \in tiles :
             /\ InsideImage(t)
             /\ t.rect[1] > 0
             /\ t.rect[2] > 0
             /\ delivered[t] = 1
             /\ \A s \in tiles : s # t => ~Overlap(s, t)
        /\ apc = "done" => AreaOf(delivered, tiles) = image_height * image_width

C1_Witness ==
    /\ apc = "done"
    /\ returned
    /\ threads = 2
    /\ image_width = RectCols + 1
    /\ image_height = RectRows + 1
    /\ BagCardinality(delivered) = 4

\* C2: every tile index below the cursor has been claimed exactly once and no
\* index twice, two workers never hold the same index, a worker renders only
\* indices below rect_count, and a complete render has claimed every index
C2_EachIndexClaimedOnce ==
    /\ \A i \in DOMAIN claim_count :
         claim_count[i] = IF i < shared_index THEN 1 ELSE 0
    /\ \A w \in Workers :
         wpc[w] = "send" =>
            /\ widx[w] < rect_count
            /\ \A v \in Workers :
                 (v # w /\ wpc[v] = "send") => widx[v] # widx[w]
    /\ apc = "done" => \A i \in DOMAIN claim_count : claim_count[i] = 1

C2_Witness ==
    /\ threads = 2
    /\ rect_count >= 2
    /\ wpc[1] = "send"
    /\ wpc[2] = "send"
    /\ shared_index = 2

\* C3: no unwrap panics, and once the consumer has dropped its receiver,
\* every worker leaves its loop, the scope joins and render returns
C3_CancelReturns ==
    /\ [](apc # "panicked")
    /\ (~receiver) ~> (returned /\ \A w \in Workers : wpc[w] = "done")

\* the consumer quit while a worker was blocked in send with the channel full,
\* and the render has returned without writing
C3_Witness ==
    /\ returned
    /\ apc = "cancelled"
    /\ \E w \in Workers : send_failed[w]
    /\ BagCardinality(delivered) < rect_count

\* the render ran to its end: every tile was delivered, every worker left its
\* loop on an index past the last tile (none on a failed send), the image was
\* written and render returned
RenderComplete ==
    /\ returned
    /\ apc = "done"
    /\ files_written = 1
    /\ \A w \in Workers : wpc[w] = "done" /\ ~send_failed[w]
    /\ \A w \in Workers : pending[w] = 0
    /\ delivered = SetToBag(AllTiles)

\* C4: with a consumer that keeps receiving and fair scheduling, every render
\* (also one of no tiles) eventually has run to its end
C4_RenderCompletes == <>RenderComplete

C4_Witness ==
    /\ RenderComplete
    /\ threads = 2
    /\ rect_count = 4

C4_WitnessEmpty ==
    /\ RenderComplete
    /\ rect_count = 0

\* the tiles rendered and not yet received by the assembler
RenderedNotReceived ==
    Len(worker_chan) + Cardinality({ w \in Workers : wpc[w] = "send" })

\* C5: the worker channel never holds more than its capacity, a worker has at
\* most one claimed tile whose send has not completed, and the tiles rendered
\* and not yet received are at most capacity + number of workers
C5_BoundedChannel ==
    /\ Len(worker_chan) <= WorkerChanCap
    /\ \A w \in Workers :
         /\ pending[w] \in {0, 1}
         /\ wpc[w] = "send" => pending[w] = 1
         /\ wpc[w] = "claim" => pending[w] = 0
    /\ RenderedNotReceived <= WorkerChanCap + threads

\* the channel is full and every worker is blocked in send
C5_Witness ==
    /\ threads = 2
    /\ delegator_receiver
    /\ Len(worker_chan) = WorkerChanCap
    /\ \A w \in Workers : wpc[w] = "send"
    /\ RenderedNotReceived = WorkerChanCap + threads

\* C6: a worker never claims after one of its sends has failed, and claims at
\* most once after the receiving end of the worker channel was dropped
C6_NoClaimAfterCancel ==
    \A w \in Workers :
        /\ claims_after_fail[w] = 0
        /\ claims_after_close[w] <= 1
        /\ send_failed[w] => wpc[w] = "done"

\* a worker claimed a tile after the receiver was dropped, and its send failed
C6_Witness ==
    \E w \in Workers :
        /\ claims_after_close[w] = 1
        /\ send_failed[w]
        /\ wpc[w] = "done"

(***************************************************************************)
(* Properties of the bounding-volume hierarchy.                            *)
(***************************************************************************)
\* the leaves of a tree, left to right
RECURSIVE Leaves(_)
Leaves(node) ==
    IF node.kind = "node"
    THEN Leaves(node.left) \o Leaves(node.right)
    ELSE << node >>

\* the internal nodes of a tree
RECURSIVE Nodes(_)
Nodes(node) ==
    IF node.kind = "node"
    THEN {node} \cup Nodes(node.left) \cup Nodes(node.right)
    ELSE {}

\* into_bvh was called on a list of at least one object
Built == bpc = "bvh" /\ source # << >>

\* the objects of the scene the ray hits in the range, by calculate_hit alone
HitsOf(objs, r, range) ==
    { i \in 1..Len(objs) : SphereHit(objs[i], r, range).hit }

\* the least t at which the ray hits an object of the scene
ClosestT(objs, r, range) ==
    LET ts == { SphereHit(objs[i], r, range).t : i \in HitsOf(objs, r, range) }
    IN  CHOOSE t \in ts : \A u \in ts : t <= u

\* the materials of the objects hit at the least t
ClosestMaterials(objs, r, range) ==
    LET least == ClosestT(objs, r, range)
    IN  { objs[i].material :
            i \in { j \in HitsOf(objs, r, range) : SphereHit(objs[j], r, range).t = least } }

C7_WitnessTie ==
    /\ bpc = "hit"
    /\ bvh_record.hit
    /\ list_record.hit
    /\ bvh_record.t = list_record.t
    /\ bvh_record.material # list_record.material

\* C8: the tree built from n >= 1 objects has n leaves, and every object of
\* the input is the leaf of exactly one position
C8_EveryObjectOneLeaf ==
    Built =>
        /\ build_ok
        /\ Len(Leaves(tree)) = Len(source)
        /\ \A i \in 1..Len(source) :
              Cardinality({ j \in 1..Len(Leaves(tree)) : Leaves(tree)[j] = source[i] }) = 1

C8_Witness ==
    /\ Built
    /\ Len(source) = 3
    /\ Len(Leaves(tree)) = 3
    /\ Leaves(tree) # source
    /\ tree.left.kind = "node"

\* the least box that holds boxes a and b, axis by axis
ExactUnion(a, b) ==
    [x |-> [start |-> IF a.x.start < b.x.start THEN a.x.start ELSE b.x.start,
            end |-> IF a.x.end > b.x.end THEN a.x.end ELSE b.x.end],
     y |-> [start |-> IF a.y.start < b.y.start THEN a.y.start ELSE b.y.start,
            end |-> IF a.y.end > b.y.end THEN a.y.end ELSE b.y.end],
     z |-> [start |-> IF a.z.start < b.z.start THEN a.z.start ELSE b.z.start,
            end |-> IF a.z.end > b.z.end THEN a.z.end ELSE b.z.end]]

\* C9: the bounding box of every internal node is the exact union of the
\* bounding boxes of its two children
C9_NodeBoxIsUnion ==
    Built =>
        \A n \in Nodes(tree) :
            n.bounding_box = ExactUnion(n.left.bounding_box, n.right.bounding_box)

\* a node over a node: the two children have different boxes, and neither
\* holds the other
C9_Witness ==
    /\ Built
    /\ tree.kind = "node"
    /\ tree.left.kind = "node"
    /\ tree.bounding_box # tree.left.bounding_box
    /\ tree.bounding_box # tree.right.bounding_box

\* C10: every call of the builder on n > 2 objects splits at 1 <= split <=
\* n - 1 (with the split of containers.rs and with that of hittable/mod.rs),
\* its two recursive calls find a slice of at least one and fewer than n
\* objects, and the construction returns; the clamp keeps the split inside
\* the slice whatever position (or None) the search for the mean returns
C10_SplitInsideSlice ==
    Built =>
        /\ build_ok
        /\ tree # NoNode
        /\ \A n \in 3..Max(3, Len(source)) : \A position \in -1..(n - 1) :
              1 <= ClampSplit(position, n) /\ ClampSplit(position, n) <= n - 1
        /\ \A s \in splits :
              /\ s.length > 2
              /\ 1 <= s.split /\ s.split <= s.length - 1
              /\ 1 <= s.old_split /\ s.old_split <= s.length - 1
              /\ s.right_length = s.length - s.split
              /\ s.left_length = s.split
              /\ 1 <= s.right_length /\ s.right_length < s.length
              /\ 1 <= s.left_length /\ s.left_length < s.length

\* three objects whose bounding-box centres are all equal
C10_Witness ==
    /\ Built
    /\ Len(source) = 3
    /\ \A i \in 1..3 : \A a \in 0..2 : Center2(source[i], a) = Center2(source[1], a)
    /\ \E s \in splits : s.length = 3 /\ s.split = 1
    /\ Len(Leaves(tree)) = 3

\* the nodes of a tree whose two children are leaves (the nodes the branch
\* `length == 2` makes), each with `depth % 3`, the axis of its call
RECURSIVE LeafPairsOf(_, _)
LeafPairsOf(node, depth) ==
    IF node.kind # "node"
    THEN {}
    ELSE IF node.left.kind = "sphere" /\ node.right.kind = "sphere"
    THEN {[left |-> node.left, right |-> node.right, axis |-> depth % 3]}
    ELSE LeafPairsOf(node.left, depth + 1) \cup LeafPairsOf(node.right, depth + 1)

\* C11: a node made of a slice of two objects has as left child the one whose
\* bounding-box centre on the axis of the call is the lesser
C11_PairOrderedByCenter ==
    Built =>
        \A p \in LeafPairsOf(tree, 0) :
            Center2(p.left, p.axis) <= Center2(p.right, p.axis)

\* the branch of hittable/mod.rs does order the pair, whatever axis is drawn
C11_OldPairOrdered ==
    (bpc = "list" /\ Len(objects) = 2) =>
        \A axis \in 0..2 :
            Center2(LeafPairOld(objects, axis).left, axis)
                <= Center2(LeafPairOld(objects, axis).right, axis)

(***************************************************************************)
(* The generator handed to each tile.                                      *)
(***************************************************************************)
\* the tile indices the workers have claimed so far
ClaimedTiles == { i \in 0..(rect_count - 1) : claim_count[i] > 0 }

\* C14: in one render, any two tiles with different linear indices are handed
\* different initial generator states by get_parameters.
C14_TilesGetDifferentRng ==
    \A i, j \in ClaimedTiles : i # j => GetParametersRng(i) # GetParametersRng(j)


(***************************************************************************)
(* Properties of the trace.                                                *)
(***************************************************************************)
\* the Color the innermost call of ray_color_inner returned
InnermostReturn ==
    IF trace_returns = << >> THEN trace_color
    ELSE trace_returns[Len(trace_returns)]

TraceReturning == tpc \in {"return", "done"}

\* the scene and the materials are asked only below the limit, at most limit
\* times, and a call at depth >= limit returns black having asked neither
TraceWithinLimit ==
    /\ scene_queries <= trace_input.limit
    /\ scatters <= trace_input.limit
    /\ tpc \in {"scatter", "sky"} => trace_depth < trace_input.limit
    /\ (TraceReturning /\ base_case = "cutoff") =>
            /\ InnermostReturn = Black
            /\ Len(frames) = trace_input.limit
            /\ scene_queries = Len(frames)
            /\ scatters = Len(frames)
    /\ (tpc = "done" /\ trace_input.limit = 0) =>
            /\ trace_color = Black
            /\ scene_queries = 0
            /\ scatters = 0

\* C12: trace returns black without querying the scene or a material whenever
\* depth >= limit (also for limit = 0); a trace started at depth 0 makes at most
\* limit scene queries and at most limit scatters, and it always terminates.
C12_TraceBoundedAndTerminates ==
    /\ []TraceWithinLimit
    /\ <>(tpc = "done" /\ trace_run = 2)

C12_Witness ==
    /\ tpc = "done"
    /\ base_case = "cutoff"
    /\ trace_input.limit = MaxDepth
    /\ scene_queries = MaxDepth
    /\ scatters = MaxDepth

\* a trace with limit 0 has returned black
C12_WitnessLimitZero ==
    /\ tpc = "done"
    /\ trace_input.limit = 0
    /\ trace_input.world[trace_input.ray] # "miss"

\* every call that scattered returned attenuation * (what its recursive call
\* returned)
ScatterMultiplies ==
    TraceReturning =>
        \A d \in 1..(Len(trace_returns) - 1) :
            trace_returns[d] =
                MulColor(frames[Len(frames) - Len(trace_returns) + 1 + d].attenuation,
                         trace_returns[d + 1])

\* C13: on a hit at depth < limit trace returns attenuation * (recursive trace
\* at depth + 1) if the material scatters and black if it absorbs; the sky
\* gradient is returned only when the ray hits nothing.
C13_HitScattersOrBlack ==
    /\ ScatterMultiplies
    /\ (TraceReturning /\ base_case = "absorbed") => InnermostReturn = Black
    /\ (TraceReturning /\ InnermostReturn # Black) => base_case = "miss"

\* what ray_color_inner does on a hit: the product when the material scatters,
\* the gradient of the incoming ray when it absorbs
C13_AbsorbedReturnsSky ==
    /\ ScatterMultiplies
    /\ (tpc = "return" /\ trace_returns = << >> /\ base_case \in {"miss", "absorbed"}) =>
            trace_color = SkyGradient(trace_ray)

UnsetFields ==
    { f \in {"width", "height", "aspect_ratio"} : ~IsSome(image_spec_builder[f]) }

\* C16: ImageSpecBuilder::build yields an image spec exactly when one of width,
\* height and aspect ratio is unset and the other two are set; every other
\* combination (all three set, none set, two unset) fails and yields no spec.
C16_ImageSpecIffOneUnset ==
    /\ ipc = "built" => (image_spec.ok /\ Cardinality(UnsetFields) = 1)
    /\ ipc = "panicked" => (~image_spec.ok /\ Cardinality(UnsetFields) # 1)
    /\ ipc = "builder" => ~image_spec.ok

C16_Witness ==
    /\ ipc = "built"
    /\ UnsetFields = {"height"}
    /\ image_spec.height = Usize(2)

\* all three fields set: the build has failed
C16_WitnessAllSet ==
    /\ ipc = "panicked"
    /\ UnsetFields = {}

\* the required parameters are set and a grid sampler has a square count
CameraConfigured ==
    /\ IsSome(camera_builder.image_spec)
    /\ IsSome(camera_builder.pixel_sampler)
    /\ IsSome(camera_builder.max_ray_depth)
    /\ camera_builder.pixel_sampler[1].kind = "Uniform" =>
            IsPerfectSquare(camera_builder.pixel_sampler[1].samples)

\* C17: CameraBuilder::build fails, producing no Camera, whenever the image
\* spec, the sampler or the maximum depth is unset or the grid sampler has a
\* samples-per-pixel count that is not a perfect square; otherwise it produces
\* a Camera.
C17_CameraIffConfigured ==
    /\ cpc = "built" => (camera.ok /\ CameraConfigured)
    /\ cpc = "panicked" => (~camera.ok /\ ~CameraConfigured)
    /\ cpc = "builder" => ~camera.ok

\* the same for the counts that an f64 holds exactly (below 2^53)
C17_CameraIffConfiguredSmall ==
    (/\ IsSome(camera_builder.pixel_sampler)
     /\ camera_builder.pixel_sampler[1].samples \subseteq 0..(F64Mantissa - 1)) =>
        C17_CameraIffConfigured

(***************************************************************************)
(* Properties of Sphere::hit and AABB::hit.                                *)
(***************************************************************************)
\* the parameters of the model's rays and shapes are within -TBound..TBound,
\* doubled or not
TBound == 16 + 4 * MaxCoord

\* the point of the ray at t = t2 / 2 lies on the sphere
OnSphere(sphere, ray, t2) ==
    LengthSquared([i \in 1..3 |->
            2 * (ray.origin[i] - sphere.center[i]) + t2 * ray.direction[i]])
        = 4 * sphere.radius * sphere.radius

\* the roots, doubled: the parameters at which the ray's line meets the sphere
Roots(sphere, ray) == { t2 \in (-TBound)..TBound : OnSphere(sphere, ray, t2) }

SmallerRoot(sphere, ray) ==
    CHOOSE r \in Roots(sphere, ray) : \A q \in Roots(sphere, ray) : r <= q

LargerRoot(sphere, ray) ==
    CHOOSE r \in Roots(sphere, ray) : \A q \in Roots(sphere, ray) : q <= r

\* t_min < t < t_max
StrictlyInside(range, t2) ==
    FLt(range.start, Num(t2)) /\ FLt(Num(t2), range.end)

\* C18: the sphere hit returns the smaller root if it lies strictly inside
\* (t_min, t_max), otherwise the larger root if that does, otherwise no hit; it
\* returns no hit when the discriminant is negative; a returned t is strictly
\* inside the interval.
C18_SphereHitPicksRoot ==
    shape_pc = "sphere" =>
        /\ Discriminant(shape_sphere, shape_ray) < 0 =>
                (Roots(shape_sphere, shape_ray) = {} /\ ~sphere_record.hit)
        /\ Discriminant(shape_sphere, shape_ray) >= 0 =>
                /\ Roots(shape_sphere, shape_ray) # {}
                /\ IF StrictlyInside(shape_range, SmallerRoot(shape_sphere, shape_ray))
                   THEN /\ sphere_record.hit
                        /\ sphere_record.t = SmallerRoot(shape_sphere, shape_ray)
                   ELSE IF StrictlyInside(shape_range, LargerRoot(shape_sphere, shape_ray))
                   THEN /\ sphere_record.hit
                        /\ sphere_record.t = LargerRoot(shape_sphere, shape_ray)
                   ELSE ~sphere_record.hit
        /\ sphere_record.hit => StrictlyInside(shape_range, sphere_record.t)

\* the smaller root is outside the interval and the larger one is returned
C18_Witness ==
    /\ shape_pc = "sphere"
    /\ sphere_record.hit
    /\ sphere_record.t = LargerRoot(shape_sphere, shape_ray)
    /\ SmallerRoot(shape_sphere, shape_ray) < sphere_record.t

\* a root on the end of the interval is not returned
C18_WitnessOnBound ==
    /\ shape_pc = "sphere"
    /\ ~sphere_record.hit
    /\ Roots(shape_sphere, shape_ray) # {}
    /\ Num(LargerRoot(shape_sphere, shape_ray)) = shape_range.end

\* some point origin + t * direction with t >= 0 lies in the closed box
EntersBox(box, ray) ==
    \E t \in 0..TBound :
        \A a \in 0..2 :
            /\ Axis(box, a).start <= ray.origin[a + 1] + t * ray.direction[a + 1]
            /\ ray.origin[a + 1] + t * ray.direction[a + 1] <= Axis(box, a).end

\* C19: AABB::hit returns None if and only if the ray's line clipped to t >= 0
\* never enters the box (boxes behind the origin and boxes of no thickness
\* included), and otherwise Some(interval) with interval.start <= interval.end.
C19_AabbHitIffEnters ==
    shape_pc = "aabb" =>
        /\ aabb_record.some <=> EntersBox(shape_box, shape_ray)
        /\ aabb_record.some => FLe(aabb_record.start, aabb_record.end)

\* what AABB::hit does return: an interval that is not empty, and only for a
\* line (t of either sign) that meets the box
C19_SomeIsOrdered ==
    (shape_pc = "aabb" /\ aabb_record.some) =>
        /\ FLt(aabb_record.start, aabb_record.end)
        /\ \E t \in (-TBound)..TBound :
               \A a \in 0..2 :
                   /\ Axis(shape_box, a).start
                        <= shape_ray.origin[a + 1] + t * shape_ray.direction[a + 1]
                   /\ shape_ray.origin[a + 1] + t * shape_ray.direction[a + 1]
                        <= Axis(shape_box, a).end

\* a box behind the origin: Some is returned though no point of the ray with
\* t >= 0 is in the box
C19_BehindOriginHit ==
    /\ shape_pc = "aabb"
    /\ aabb_record.some
    /\ FLt(aabb_record.end, Num(0))
    /\ ~EntersBox(shape_box, shape_ray)

\* a box of no thickness: None is returned though the ray passes through it
C19_ThinBoxMissed ==
    /\ shape_pc = "aabb"
    /\ ~aabb_record.some
    /\ EntersBox(shape_box, shape_ray)

(***************************************************************************)
(* Properties of the placing of tiles.                                     *)
(***************************************************************************)
\* the tile that holds pixel (y, x) is among the tiles `tiles`
PixelArrived(tiles, y, x) ==
    \E idx \in tiles :
        LET p == GetParameters(idx, asm_height, asm_width)
        IN  /\ p.top_left[1] <= y /\ y < p.top_left[1] + p.rect[1]
            /\ p.top_left[2] <= x /\ x < p.top_left[2] + p.rect[2]

\* the image whose tiles `tiles` are placed, by pixel and not by tile
ImageOf(tiles, as_u8) ==
    [index \in 0..(asm_height * asm_width - 1) |->
        IF PixelArrived(tiles, index \div asm_width, index % asm_width)
        THEN Convert(as_u8, PixelColor(index \div asm_width, index % asm_width))
        ELSE BlackPixel]

AllArrived == 0..(RectCount(asm_height, asm_width) - 1)

\* C20: the assembled image does not depend on the order of delivery: in
\* whatever order the tiles of a render arrive, image_buffer and the texture hold
\* every arrived tile at its own offset and extent, and the complete image once
\* all have arrived; the position of arrival is not used to place a tile.
C20_ImageIndependentOfOrder ==
    asm_pc # "idle" =>
        /\ image_buffer = ImageOf(AllArrived \ asm_pending, FALSE)
        /\ asm_out = << >> => texture = ImageOf(AllArrived \ asm_pending, TRUE)
        /\ asm_pc = "done" =>
               /\ image_buffer = ImageOf(AllArrived, FALSE)
               /\ texture = ImageOf(AllArrived, TRUE)

\* a complete image of three tiles or more that did not arrive in raster order
C20_Witness ==
    /\ asm_pc = "done"
    /\ asm_out_of_order
    /\ RectCount(asm_height, asm_width) >= 3
    /\ asm_height > 1
    /\ asm_width > 1

(***************************************************************************)
(* Properties of the tiles the workers send.                               *)
(***************************************************************************)
\* the tile lies in the image, is not empty and is no larger than 32 x 32
TileWellFormed(msg, h, w) ==
    /\ 1 <= msg.rect[1] /\ msg.rect[1] <= RectRows
    /\ 1 <= msg.rect[2] /\ msg.rect[2] <= RectCols
    /\ msg.top_left[1] + msg.rect[1] <= h
    /\ msg.top_left[2] + msg.rect[2] <= w

\* the buffer has rows x cols entries, pixel (dy, dx) at index dy * cols + dx
RowMajor(msg) ==
    /\ DOMAIN msg.result = 0..(msg.rect[1] * msg.rect[2] - 1)
    /\ \A dy \in 0..(msg.rect[1] - 1) : \A dx \in 0..(msg.rect[2] - 1) :
           msg.result[(dy * msg.rect[2]) + dx]
               = PixelColor(msg.top_left[1] + dy, msg.top_left[2] + dx)

\* C21: every tile sent for an H x W image has an offset (row, col) and an
\* extent (rows, cols) with 1 <= rows <= 32, 1 <= cols <= 32, row + rows <= H
\* and col + cols <= W, and a pixel buffer of exactly rows x cols entries that
\* holds the pixel at local position (dy, dx) at index dy * cols + dx.
C21_TilesWellFormedRowMajor ==
    \A n \in 1..Len(asm_out) :
        /\ TileWellFormed(asm_out[n].msg, asm_height, asm_width)
        /\ RowMajor(asm_out[n].msg)

\* a tile on the right edge that is narrower than it is high was sent
C21_Witness ==
    /\ asm_out # << >>
    /\ Head(asm_out).msg.rect = << RectRows, 1 >>
    /\ Head(asm_out).msg.top_left[2] > 0

(***************************************************************************)
(* Properties of the face and the normal of a sphere's hit record.         *)
(***************************************************************************)
\* twice the vector from the centre of the sphere to the point of the hit
FromCenter2 ==
    [i \in 1..3 |-> 2 * (shape_ray.origin[i] - shape_sphere.center[i])
                        + sphere_record.t * shape_ray.direction[i]]

SphereHitReturned == shape_pc = "sphere" /\ sphere_record.hit

\* C22: for every hit record a sphere returns (spheres of a negative radius
\* included) front_face is true exactly when dot(ray.direction, outward_normal)
\* < 0, and the stored normal never points along the incoming ray:
\* dot(ray.direction, normal) <= 0.
C22_NormalOpposesRay ==
    SphereHitReturned =>
        /\ sphere_record.front_face
              <=> FLt(FDot(shape_ray.direction,
                           OutwardNormal(shape_sphere, shape_ray, sphere_record.t)),
                      Num(0))
        /\ FLe(FDot(shape_ray.direction, sphere_record.normal), Num(0))

\* the same for the spheres whose radius is not 0, with the normal taken from
\* the centre and the sign of the radius: the stored normal is the vector from
\* the centre or its opposite
C22_NormalOpposesRayNonZero ==
    (SphereHitReturned /\ shape_sphere.radius # 0) =>
        /\ sphere_record.front_face
              <=> (Dot(shape_ray.direction, FromCenter2) * shape_sphere.radius < 0)
        /\ \E sign \in {-1, 1} :
              /\ sphere_record.normal = [i \in 1..3 |-> Num(sign * FromCenter2[i])]
              /\ sign * Dot(shape_ray.direction, FromCenter2) <= 0

\* a hit from inside a sphere of negative radius
C22_WitnessInsideNegative ==
    /\ SphereHitReturned
    /\ shape_sphere.radius < 0
    /\ Dot(shape_ray.direction, FromCenter2) > 0

\* a hit on a sphere of radius 0: the normal is NaN
C22_ZeroRadiusNaN ==
    /\ SphereHitReturned
    /\ shape_sphere.radius = 0
    /\ sphere_record.normal = << NaN, NaN, NaN >>

(***************************************************************************)
(* Properties of what the BVH builder leaves in the Vec.                   *)
(***************************************************************************)
\* into_bvh has returned
IntoBvhReturned == bpc \in {"bvh", "hit"} /\ source # << >>

\* C23: the BVH builder consumes its input destructively and only from the
\* given offset: a call on (objects, start) with objects.len() > start returns
\* with exactly the elements at positions >= start removed and the elements at
\* positions < start unchanged in identity and order; after into_bvh the source
\* collection is empty.
C23_BuilderConsumesFromStart ==
    IntoBvhReturned =>
        /\ build_ok
        /\ objects = << >>
        /\ \A start \in 0..(Len(source) - 1) : \A depth \in 0..2 :
               /\ InnerFromVec(source, start, depth).ok
               /\ InnerFromVec(source, start, depth).objects = SubSeq(source, 1, start)

\* a list of three objects or more was built: the builder called itself, once
\* of them from an offset above 0
C23_Witness ==
    /\ IntoBvhReturned
    /\ Len(source) >= 3
    /\ objects = << >>
    /\ \E call \in splits : call.split >= 1 /\ call.right_length >= 1

(***************************************************************************)
(* Properties of the split of a slice at its mean.                         *)
(***************************************************************************)
SplitDone == split_pc = "split"

\* the positions (from 1) of the sorted slice that go left, and right
LeftOf(index) == 1..index

RightOf(index) == (index + 1)..Len(sorted_middles)

\* the split `index` is where the middles cross the mean
CrossesMean(index) ==
    /\ \A l \in LeftOf(index) : \A r \in RightOf(index) :
           ~F64Lt(sorted_middles[r], sorted_middles[l])
    /\ IF \E i \in 1..Len(sorted_middles) : F64Lt(sorted_middles[i], split_mean)
       THEN /\ \A l \in LeftOf(index) : F64Lt(sorted_middles[l], split_mean)
            /\ \A r \in RightOf(index) : ~F64Lt(sorted_middles[r], split_mean)
       ELSE index = 1

\* C24: in the recursive case (length > 2) the slice is split where the centers
\* cross the slice mean on the chosen axis: every element placed left has a
\* center <= that of every element placed right, every left element's center is
\* strictly below the mean and every right element's center is at or above it,
\* except that when no center is below the mean exactly one element (the least)
\* goes left.
C24_SplitWhereCentersCrossMean ==
    SplitDone => CrossesMean(split_index)

\* the sum and the mean of the slice are exact: whole numbers add up to a
\* multiple of the length
ExactMean ==
    /\ \A i \in 1..Len(middles) : middles[i].e = 0
    /\ F64Sum(middles) = [m |-> F64Sum(middles).m, e |-> 0]
    /\ \E k \in 0..(3 * MaxSlice) :
           F64Sum(middles).m = U64(k * Len(middles))

\* with an exact mean the split is where the middles cross it
C24_SplitCrossesExactMean ==
    (SplitDone /\ ExactMean) => CrossesMean(split_index)

\* the split is inside the slice and the left part is sorted below the right
C24_SplitInsideSorted ==
    SplitDone =>
        /\ 1 <= split_index /\ split_index < Len(sorted_middles)
        /\ \A l \in LeftOf(split_index) : \A r \in RightOf(split_index) :
               ~F64Lt(sorted_middles[r], sorted_middles[l])

\* every middle is 0.1 and the rounded mean lies above them all: position finds
\* nothing and the right part is below the mean
C24_RoundedMeanAboveAll ==
    /\ SplitDone
    /\ \A i \in 1..Len(middles) : middles[i] = Tenth
    /\ \A i \in 1..Len(middles) : F64Lt(middles[i], split_mean)
    /\ split_index = Len(middles) \div 2

\* the older revision puts a middle below the mean right
C24_OldSplitRightBelowMean ==
    /\ SplitDone
    /\ ExactMean
    /\ \E r \in RightOf(split_old) : F64Lt(sorted_middles[r], split_mean)

(***************************************************************************)
(* Properties of the generators of the pixels of a tile.                   *)
(***************************************************************************)
\* the local positions (j, i) of the pixels of tile idx
PixelsOf(idx) ==
    (0..(GetParameters(idx, image_height, image_width).rect[1] - 1))
        \X (0..(GetParameters(idx, image_height, image_width).rect[2] - 1))

\* C25: within a tile every pixel's sampling gets its own stream: the state
\* from which pixel (j, i) starts to draw differs from the starting state of
\* every other pixel of the same tile.
C25_PixelsGetDifferentRng ==
    \A idx \in ClaimedTiles : \A p, q \in PixelsOf(idx) :
        p # q => PixelRng(GetParametersRng(idx), p[1], p[2])
                    # PixelRng(GetParametersRng(idx), q[1], q[2])

(***************************************************************************)
(* Properties of what the workers render.                                  *)
(***************************************************************************)
\* Rng::from_seed([123, 128]) after one short_jump
SoloRng == short_jump(FromSeed(<< U64(123), U64(128) >>))

\* what render_rect is given for tile idx in a render of one worker that runs
\* alone: the generator seeded and leapt once, the offset and extent of idx
SoloRenderRectCall(idx) ==
    [called |-> TRUE,
     rng |-> SoloRng,
     top_left |-> << (idx \div DivCeil(image_width, RectCols)) * RectRows,
                     (idx % DivCeil(image_width, RectCols)) * RectCols >>,
     rect |-> << Min(RectRows, image_height
                        - (idx \div DivCeil(image_width, RectCols)) * RectRows),
                 Min(RectCols, image_width
                        - (idx % DivCeil(image_width, RectCols)) * RectCols) >>]

C27_FileWrittenOnceAfterAllTiles ==
    /\ files_written <= 1
    /\ files_written = 1 =>
          /\ ai = rect_count
          /\ BagCardinality(placed) = rect_count
          /\ BagCardinality(delivered) = rect_count
          /\ apc = "done"
    /\ apc = "cancelled" => files_written = 0

\* a complete render of several tiles has written its file
C27_Witness ==
    /\ files_written = 1
    /\ rect_count >= 2
    /\ BagCardinality(delivered) = rect_count

\* a render was cancelled after it had forwarded a tile
C27_WitnessCancelled ==
    /\ apc = "cancelled"
    /\ ai >= 1
    /\ files_written = 0


\* the sum of the terms f(1) .. f(n)
RECURSIVE SumTo(_, _)
SumTo(f, n) == IF n = 0 THEN 0 ELSE f[n] + SumTo(f, n - 1)

\* a coordinate, in multiples of 1 / (2 * samples_sqrt), lies in the
\* footprint of pixel p: p - 0.5 <= c <= p + 0.5
InFootprint(c, p) ==
    /\ AsF64Halves(p, sampler_sqrt) - sampler_sqrt <= c
    /\ c <= AsF64Halves(p, sampler_sqrt) + sampler_sqrt

\* C28: every position of the stratified grid generated for pixel (j, i)
\* lies inside the pixel's footprint, the whole grid has its centre at the
\* pixel centre (i, j), and the single sample of grid side 1 is at the centre
C28_SamplesInsidePixelCentred ==
    LET n == Len(sample_points)
    IN  /\ \A k \in 1..n :
              /\ InFootprint(sample_points[k].dx, pixel_i)
              /\ InFootprint(sample_points[k].dy, pixel_j)
        /\ sampler_pc = "done" =>
              /\ SumTo([k \in 1..n |-> sample_points[k].dx], n)
                    = n * AsF64Halves(pixel_i, sampler_sqrt)
              /\ SumTo([k \in 1..n |-> sample_points[k].dy], n)
                    = n * AsF64Halves(pixel_j, sampler_sqrt)
        /\ (sampler_pc = "done" /\ sampler_sqrt = 1) =>
              sample_points = << [dx |-> AsF64Halves(pixel_i, 1),
                                  dy |-> AsF64Halves(pixel_j, 1)] >>

\* what the loop does generate: the grid of cell centres of the pixel, moved
\* by one subpixel interval towards smaller dx and dy
C28_GridShiftedByInterval ==
    \A k \in 1..Len(sample_points) :
        LET xi == (k - 1) % sampler_sqrt
            yi == (k - 1) \div sampler_sqrt
            cell(p, c) == AsF64Halves(p, sampler_sqrt) - sampler_sqrt + 2 * c + 1
        IN  /\ sample_points[k].dx = cell(pixel_i, xi) - 2
            /\ sample_points[k].dy = cell(pixel_j, yi) - 2

\* the single sample of grid side 1 was taken at the centre of the pixel one
\* row up and one column to the left
C28_SingleSampleAtNeighbour ==
    /\ sampler_pc = "done"
    /\ sampler_sqrt = 1
    /\ sample_points = << [dx |-> AsF64Halves(pixel_i - 1, 1),
                           dy |-> AsF64Halves(pixel_j - 1, 1)] >>


\* max(1, floor(n / d)) for d > 0
FloorAtLeastOne(n, d) == Usize(Max(1, n \div d))

\* a derived height is max(1, floor(width / aspect_ratio)), whatever the
\* positive ratio
DerivedHeightFromRatio ==
    (ipc = "built" /\ UnsetFields = {"height"}
        /\ image_spec.aspect_ratio.num > 0) =>
        image_spec.height =
            FloorAtLeastOne(image_spec_builder.width[1] * image_spec.aspect_ratio.den,
                            image_spec.aspect_ratio.num)

\* a derived dimension is not 0
DerivedNotZero ==
    /\ (ipc = "built" /\ UnsetFields = {"height"}) => image_spec.height # Usize(0)
    /\ (ipc = "built" /\ UnsetFields = {"width"}) => image_spec.width # Usize(0)

\* C29: a dimension ImageSpecBuilder derives is consistent with the aspect
\* ratio width / height: a derived height is max(1, floor(width /
\* aspect_ratio)), a derived width is max(1, floor(height * aspect_ratio)),
\* and a derived dimension is never 0
C29_DerivedDimensionFromRatio ==
    /\ DerivedHeightFromRatio
    /\ DerivedNotZero
    /\ (ipc = "built" /\ UnsetFields = {"width"}) =>
          image_spec.width =
              FloorAtLeastOne(image_spec_builder.height[1] * image_spec.aspect_ratio.num,
                              image_spec.aspect_ratio.den)

\* the parts of the claim about the height and about 0 hold
C29_HeightFromRatioNeverZero ==
    /\ DerivedHeightFromRatio
    /\ DerivedNotZero

\* a width derived from height 2 and aspect ratio 2 is 1, not 4
C29_WidthFromInverseRatio ==
    /\ ipc = "built"
    /\ UnsetFields = {"width"}
    /\ image_spec_builder.height = Some(2)
    /\ image_spec.aspect_ratio = [num |-> 2, den |-> 1]
    /\ image_spec.width = Usize(1)

\* a height was derived from a width and a ratio that do not divide evenly
C29_HeightFloored ==
    /\ ipc = "built"
    /\ UnsetFields = {"height"}
    /\ image_spec_builder.width = Some(1)
    /\ image_spec.aspect_ratio = [num |-> 2, den |-> 1]
    /\ image_spec.height = Usize(1)


\* C30: into_bvh on a list with no objects does not return a tree: the call
\* fails on the length arithmetic or on the slice split; on every list of at
\* least one object it returns one
C30_EmptyListNeverBuilt ==
    bpc \in {"bvh", "hit"} =>
        /\ source = << >> => (~build_ok /\ tree = NoNode /\ bpc = "bvh")
        /\ source # << >> => (build_ok /\ tree # NoNode)
        /\ ~InnerFromVec(<< >>, 0, 0).ok
        /\ \A start \in 1..MaxObjects : ~InnerFromVec(<< >>, start, 1).ok

\* into_bvh was called on the empty list: the builder split no objects at 1
\* and called itself from offset 1
C30_Witness ==
    /\ bpc = "bvh"
    /\ source = << >>
    /\ ~build_ok
    /\ \E call \in splits : call.length = 0 /\ call.split = 1

====
